---- MODULE Spec2Model ----
(***************************************************************************)
(* Ambarella firmware container (Yi 4k) packer: the checksum engine, the   *)
(* entry-table boundary detector, the extraction pipeline (amba_extract)   *)
(* and the construction pipeline (amba_create) of amba_fwpak_yi.py.        *)
(*                                                                         *)
(* Bytes are numbers 0..255.  A 32-bit word (c_uint) is kept as its four   *)
(* little-endian bytes <<b0, b1, b2, b3>>, which is how it lies in the     *)
(* file; Val(w) is its numeric value where that fits 32-bit signed         *)
(* integers.  A file is a sequence of bytes with a stream position.        *)
(***************************************************************************)
EXTENDS Integers, Sequences, FiniteSets, TLC

(***************************************************************************)
(* Bytes and 32-bit words                                                  *)
(***************************************************************************)
RECURSIVE XorBits(_, _, _)
XorBits(a, b, n) ==
  IF n = 0 THEN 0
  ELSE ((a + b) % 2) + 2 * XorBits(a \div 2, b \div 2, n - 1)

XorNib == [a \in 0..15 |-> [b \in 0..15 |-> XorBits(a, b, 4)]]

\* a ^ b on bytes
Xor8(a, b) == XorNib[a % 16][b % 16] + 16 * XorNib[a \div 16][b \div 16]

\* a ^ b on 32-bit words
XorW(v, w) == <<Xor8(v[1], w[1]), Xor8(v[2], w[2]), Xor8(v[3], w[3]), Xor8(v[4], w[4])>>

\* w >> 8
Shr8(w) == <<w[2], w[3], w[4], 0>>

\* the word whose upper half is hi and lower half is lo (0xHHHHLLLL)
W(hi, lo) == <<lo % 256, lo \div 256, hi % 256, hi \div 256>>

\* the word of a number below 2^31
WordOf(n) == <<n % 256, (n \div 256) % 256, (n \div 65536) % 256, (n \div 16777216) % 256>>

Zero32 == <<0, 0, 0, 0>>
Ones32 == <<255, 255, 255, 255>>

\* w ^ 0xffffffff
NotW(w) == XorW(w, Ones32)

\* numeric value of a word below 2^31
Val(w) == w[1] + 256 * w[2] + 65536 * w[3] + 16777216 * w[4]

\* the upper and lower 16 bits of a word
Hi16(w) == w[3] + 256 * w[4]
Lo16(w) == w[1] + 256 * w[2]

\* numeric order on words, without leaving 31 bits
WordLess(v, w) ==
  \/ Hi16(v) < Hi16(w)
  \/ Hi16(v) = Hi16(w) /\ Lo16(v) < Lo16(w)

Zeros(n) == [k \in 1..n |-> 0]

(***************************************************************************)
(* crc32_tab: the four slice-by-four lookup tables                         *)
(***************************************************************************)
crc32_tab == <<
  <<
    W(\h0000,\h0000), W(\h7707,\h3096), W(\hEE0E,\h612C), W(\h9909,\h51BA),
    W(\h076D,\hC419), W(\h706A,\hF48F), W(\hE963,\hA535), W(\h9E64,\h95A3),
    W(\h0EDB,\h8832), W(\h79DC,\hB8A4), W(\hE0D5,\hE91E), W(\h97D2,\hD988),
    W(\h09B6,\h4C2B), W(\h7EB1,\h7CBD), W(\hE7B8,\h2D07), W(\h90BF,\h1D91),
    W(\h1DB7,\h1064), W(\h6AB0,\h20F2), W(\hF3B9,\h7148), W(\h84BE,\h41DE),
    W(\h1ADA,\hD47D), W(\h6DDD,\hE4EB), W(\hF4D4,\hB551), W(\h83D3,\h85C7),
    W(\h136C,\h9856), W(\h646B,\hA8C0), W(\hFD62,\hF97A), W(\h8A65,\hC9EC),
    W(\h1401,\h5C4F), W(\h6306,\h6CD9), W(\hFA0F,\h3D63), W(\h8D08,\h0DF5),
    W(\h3B6E,\h20C8), W(\h4C69,\h105E), W(\hD560,\h41E4), W(\hA267,\h7172),
    W(\h3C03,\hE4D1), W(\h4B04,\hD447), W(\hD20D,\h85FD), W(\hA50A,\hB56B),
    W(\h35B5,\hA8FA), W(\h42B2,\h986C), W(\hDBBB,\hC9D6), W(\hACBC,\hF940),
    W(\h32D8,\h6CE3), W(\h45DF,\h5C75), W(\hDCD6,\h0DCF), W(\hABD1,\h3D59),
    W(\h26D9,\h30AC), W(\h51DE,\h003A), W(\hC8D7,\h5180), W(\hBFD0,\h6116),
    W(\h21B4,\hF4B5), W(\h56B3,\hC423), W(\hCFBA,\h9599), W(\hB8BD,\hA50F),
    W(\h2802,\hB89E), W(\h5F05,\h8808), W(\hC60C,\hD9B2), W(\hB10B,\hE924),
    W(\h2F6F,\h7C87), W(\h5868,\h4C11), W(\hC161,\h1DAB), W(\hB666,\h2D3D),
    W(\h76DC,\h4190), W(\h01DB,\h7106), W(\h98D2,\h20BC), W(\hEFD5,\h102A),
    W(\h71B1,\h8589), W(\h06B6,\hB51F), W(\h9FBF,\hE4A5), W(\hE8B8,\hD433),
    W(\h7807,\hC9A2), W(\h0F00,\hF934), W(\h9609,\hA88E), W(\hE10E,\h9818),
    W(\h7F6A,\h0DBB), W(\h086D,\h3D2D), W(\h9164,\h6C97), W(\hE663,\h5C01),
    W(\h6B6B,\h51F4), W(\h1C6C,\h6162), W(\h8565,\h30D8), W(\hF262,\h004E),
    W(\h6C06,\h95ED), W(\h1B01,\hA57B), W(\h8208,\hF4C1), W(\hF50F,\hC457),
    W(\h65B0,\hD9C6), W(\h12B7,\hE950), W(\h8BBE,\hB8EA), W(\hFCB9,\h887C),
    W(\h62DD,\h1DDF), W(\h15DA,\h2D49), W(\h8CD3,\h7CF3), W(\hFBD4,\h4C65),
    W(\h4DB2,\h6158), W(\h3AB5,\h51CE), W(\hA3BC,\h0074), W(\hD4BB,\h30E2),
    W(\h4ADF,\hA541), W(\h3DD8,\h95D7), W(\hA4D1,\hC46D), W(\hD3D6,\hF4FB),
    W(\h4369,\hE96A), W(\h346E,\hD9FC), W(\hAD67,\h8846), W(\hDA60,\hB8D0),
    W(\h4404,\h2D73), W(\h3303,\h1DE5), W(\hAA0A,\h4C5F), W(\hDD0D,\h7CC9),
    W(\h5005,\h713C), W(\h2702,\h41AA), W(\hBE0B,\h1010), W(\hC90C,\h2086),
    W(\h5768,\hB525), W(\h206F,\h85B3), W(\hB966,\hD409), W(\hCE61,\hE49F),
    W(\h5EDE,\hF90E), W(\h29D9,\hC998), W(\hB0D0,\h9822), W(\hC7D7,\hA8B4),
    W(\h59B3,\h3D17), W(\h2EB4,\h0D81), W(\hB7BD,\h5C3B), W(\hC0BA,\h6CAD),
    W(\hEDB8,\h8320), W(\h9ABF,\hB3B6), W(\h03B6,\hE20C), W(\h74B1,\hD29A),
    W(\hEAD5,\h4739), W(\h9DD2,\h77AF), W(\h04DB,\h2615), W(\h73DC,\h1683),
    W(\hE363,\h0B12), W(\h9464,\h3B84), W(\h0D6D,\h6A3E), W(\h7A6A,\h5AA8),
    W(\hE40E,\hCF0B), W(\h9309,\hFF9D), W(\h0A00,\hAE27), W(\h7D07,\h9EB1),
    W(\hF00F,\h9344), W(\h8708,\hA3D2), W(\h1E01,\hF268), W(\h6906,\hC2FE),
    W(\hF762,\h575D), W(\h8065,\h67CB), W(\h196C,\h3671), W(\h6E6B,\h06E7),
    W(\hFED4,\h1B76), W(\h89D3,\h2BE0), W(\h10DA,\h7A5A), W(\h67DD,\h4ACC),
    W(\hF9B9,\hDF6F), W(\h8EBE,\hEFF9), W(\h17B7,\hBE43), W(\h60B0,\h8ED5),
    W(\hD6D6,\hA3E8), W(\hA1D1,\h937E), W(\h38D8,\hC2C4), W(\h4FDF,\hF252),
    W(\hD1BB,\h67F1), W(\hA6BC,\h5767), W(\h3FB5,\h06DD), W(\h48B2,\h364B),
    W(\hD80D,\h2BDA), W(\hAF0A,\h1B4C), W(\h3603,\h4AF6), W(\h4104,\h7A60),
    W(\hDF60,\hEFC3), W(\hA867,\hDF55), W(\h316E,\h8EEF), W(\h4669,\hBE79),
    W(\hCB61,\hB38C), W(\hBC66,\h831A), W(\h256F,\hD2A0), W(\h5268,\hE236),
    W(\hCC0C,\h7795), W(\hBB0B,\h4703), W(\h2202,\h16B9), W(\h5505,\h262F),
    W(\hC5BA,\h3BBE), W(\hB2BD,\h0B28), W(\h2BB4,\h5A92), W(\h5CB3,\h6A04),
    W(\hC2D7,\hFFA7), W(\hB5D0,\hCF31), W(\h2CD9,\h9E8B), W(\h5BDE,\hAE1D),
    W(\h9B64,\hC2B0), W(\hEC63,\hF226), W(\h756A,\hA39C), W(\h026D,\h930A),
    W(\h9C09,\h06A9), W(\hEB0E,\h363F), W(\h7207,\h6785), W(\h0500,\h5713),
    W(\h95BF,\h4A82), W(\hE2B8,\h7A14), W(\h7BB1,\h2BAE), W(\h0CB6,\h1B38),
    W(\h92D2,\h8E9B), W(\hE5D5,\hBE0D), W(\h7CDC,\hEFB7), W(\h0BDB,\hDF21),
    W(\h86D3,\hD2D4), W(\hF1D4,\hE242), W(\h68DD,\hB3F8), W(\h1FDA,\h836E),
    W(\h81BE,\h16CD), W(\hF6B9,\h265B), W(\h6FB0,\h77E1), W(\h18B7,\h4777),
    W(\h8808,\h5AE6), W(\hFF0F,\h6A70), W(\h6606,\h3BCA), W(\h1101,\h0B5C),
    W(\h8F65,\h9EFF), W(\hF862,\hAE69), W(\h616B,\hFFD3), W(\h166C,\hCF45),
    W(\hA00A,\hE278), W(\hD70D,\hD2EE), W(\h4E04,\h8354), W(\h3903,\hB3C2),
    W(\hA767,\h2661), W(\hD060,\h16F7), W(\h4969,\h474D), W(\h3E6E,\h77DB),
    W(\hAED1,\h6A4A), W(\hD9D6,\h5ADC), W(\h40DF,\h0B66), W(\h37D8,\h3BF0),
    W(\hA9BC,\hAE53), W(\hDEBB,\h9EC5), W(\h47B2,\hCF7F), W(\h30B5,\hFFE9),
    W(\hBDBD,\hF21C), W(\hCABA,\hC28A), W(\h53B3,\h9330), W(\h24B4,\hA3A6),
    W(\hBAD0,\h3605), W(\hCDD7,\h0693), W(\h54DE,\h5729), W(\h23D9,\h67BF),
    W(\hB366,\h7A2E), W(\hC461,\h4AB8), W(\h5D68,\h1B02), W(\h2A6F,\h2B94),
    W(\hB40B,\hBE37), W(\hC30C,\h8EA1), W(\h5A05,\hDF1B), W(\h2D02,\hEF8D)
  >>,
  <<
    W(\h0000,\h0000), W(\h191B,\h3141), W(\h3236,\h6282), W(\h2B2D,\h53C3),
    W(\h646C,\hC504), W(\h7D77,\hF445), W(\h565A,\hA786), W(\h4F41,\h96C7),
    W(\hC8D9,\h8A08), W(\hD1C2,\hBB49), W(\hFAEF,\hE88A), W(\hE3F4,\hD9CB),
    W(\hACB5,\h4F0C), W(\hB5AE,\h7E4D), W(\h9E83,\h2D8E), W(\h8798,\h1CCF),
    W(\h4AC2,\h1251), W(\h53D9,\h2310), W(\h78F4,\h70D3), W(\h61EF,\h4192),
    W(\h2EAE,\hD755), W(\h37B5,\hE614), W(\h1C98,\hB5D7), W(\h0583,\h8496),
    W(\h821B,\h9859), W(\h9B00,\hA918), W(\hB02D,\hFADB), W(\hA936,\hCB9A),
    W(\hE677,\h5D5D), W(\hFF6C,\h6C1C), W(\hD441,\h3FDF), W(\hCD5A,\h0E9E),
    W(\h9584,\h24A2), W(\h8C9F,\h15E3), W(\hA7B2,\h4620), W(\hBEA9,\h7761),
    W(\hF1E8,\hE1A6), W(\hE8F3,\hD0E7), W(\hC3DE,\h8324), W(\hDAC5,\hB265),
    W(\h5D5D,\hAEAA), W(\h4446,\h9FEB), W(\h6F6B,\hCC28), W(\h7670,\hFD69),
    W(\h3931,\h6BAE), W(\h202A,\h5AEF), W(\h0B07,\h092C), W(\h121C,\h386D),
    W(\hDF46,\h36F3), W(\hC65D,\h07B2), W(\hED70,\h5471), W(\hF46B,\h6530),
    W(\hBB2A,\hF3F7), W(\hA231,\hC2B6), W(\h891C,\h9175), W(\h9007,\hA034),
    W(\h179F,\hBCFB), W(\h0E84,\h8DBA), W(\h25A9,\hDE79), W(\h3CB2,\hEF38),
    W(\h73F3,\h79FF), W(\h6AE8,\h48BE), W(\h41C5,\h1B7D), W(\h58DE,\h2A3C),
    W(\hF079,\h4F05), W(\hE962,\h7E44), W(\hC24F,\h2D87), W(\hDB54,\h1CC6),
    W(\h9415,\h8A01), W(\h8D0E,\hBB40), W(\hA623,\hE883), W(\hBF38,\hD9C2),
    W(\h38A0,\hC50D), W(\h21BB,\hF44C), W(\h0A96,\hA78F), W(\h138D,\h96CE),
    W(\h5CCC,\h0009), W(\h45D7,\h3148), W(\h6EFA,\h628B), W(\h77E1,\h53CA),
    W(\hBABB,\h5D54), W(\hA3A0,\h6C15), W(\h888D,\h3FD6), W(\h9196,\h0E97),
    W(\hDED7,\h9850), W(\hC7CC,\hA911), W(\hECE1,\hFAD2), W(\hF5FA,\hCB93),
    W(\h7262,\hD75C), W(\h6B79,\hE61D), W(\h4054,\hB5DE), W(\h594F,\h849F),
    W(\h160E,\h1258), W(\h0F15,\h2319), W(\h2438,\h70DA), W(\h3D23,\h419B),
    W(\h65FD,\h6BA7), W(\h7CE6,\h5AE6), W(\h57CB,\h0925), W(\h4ED0,\h3864),
    W(\h0191,\hAEA3), W(\h188A,\h9FE2), W(\h33A7,\hCC21), W(\h2ABC,\hFD60),
    W(\hAD24,\hE1AF), W(\hB43F,\hD0EE), W(\h9F12,\h832D), W(\h8609,\hB26C),
    W(\hC948,\h24AB), W(\hD053,\h15EA), W(\hFB7E,\h4629), W(\hE265,\h7768),
    W(\h2F3F,\h79F6), W(\h3624,\h48B7), W(\h1D09,\h1B74), W(\h0412,\h2A35),
    W(\h4B53,\hBCF2), W(\h5248,\h8DB3), W(\h7965,\hDE70), W(\h607E,\hEF31),
    W(\hE7E6,\hF3FE), W(\hFEFD,\hC2BF), W(\hD5D0,\h917C), W(\hCCCB,\hA03D),
    W(\h838A,\h36FA), W(\h9A91,\h07BB), W(\hB1BC,\h5478), W(\hA8A7,\h6539),
    W(\h3B83,\h984B), W(\h2298,\hA90A), W(\h09B5,\hFAC9), W(\h10AE,\hCB88),
    W(\h5FEF,\h5D4F), W(\h46F4,\h6C0E), W(\h6DD9,\h3FCD), W(\h74C2,\h0E8C),
    W(\hF35A,\h1243), W(\hEA41,\h2302), W(\hC16C,\h70C1), W(\hD877,\h4180),
    W(\h9736,\hD747), W(\h8E2D,\hE606), W(\hA500,\hB5C5), W(\hBC1B,\h8484),
    W(\h7141,\h8A1A), W(\h685A,\hBB5B), W(\h4377,\hE898), W(\h5A6C,\hD9D9),
    W(\h152D,\h4F1E), W(\h0C36,\h7E5F), W(\h271B,\h2D9C), W(\h3E00,\h1CDD),
    W(\hB998,\h0012), W(\hA083,\h3153), W(\h8BAE,\h6290), W(\h92B5,\h53D1),
    W(\hDDF4,\hC516), W(\hC4EF,\hF457), W(\hEFC2,\hA794), W(\hF6D9,\h96D5),
    W(\hAE07,\hBCE9), W(\hB71C,\h8DA8), W(\h9C31,\hDE6B), W(\h852A,\hEF2A),
    W(\hCA6B,\h79ED), W(\hD370,\h48AC), W(\hF85D,\h1B6F), W(\hE146,\h2A2E),
    W(\h66DE,\h36E1), W(\h7FC5,\h07A0), W(\h54E8,\h5463), W(\h4DF3,\h6522),
    W(\h02B2,\hF3E5), W(\h1BA9,\hC2A4), W(\h3084,\h9167), W(\h299F,\hA026),
    W(\hE4C5,\hAEB8), W(\hFDDE,\h9FF9), W(\hD6F3,\hCC3A), W(\hCFE8,\hFD7B),
    W(\h80A9,\h6BBC), W(\h99B2,\h5AFD), W(\hB29F,\h093E), W(\hAB84,\h387F),
    W(\h2C1C,\h24B0), W(\h3507,\h15F1), W(\h1E2A,\h4632), W(\h0731,\h7773),
    W(\h4870,\hE1B4), W(\h516B,\hD0F5), W(\h7A46,\h8336), W(\h635D,\hB277),
    W(\hCBFA,\hD74E), W(\hD2E1,\hE60F), W(\hF9CC,\hB5CC), W(\hE0D7,\h848D),
    W(\hAF96,\h124A), W(\hB68D,\h230B), W(\h9DA0,\h70C8), W(\h84BB,\h4189),
    W(\h0323,\h5D46), W(\h1A38,\h6C07), W(\h3115,\h3FC4), W(\h280E,\h0E85),
    W(\h674F,\h9842), W(\h7E54,\hA903), W(\h5579,\hFAC0), W(\h4C62,\hCB81),
    W(\h8138,\hC51F), W(\h9823,\hF45E), W(\hB30E,\hA79D), W(\hAA15,\h96DC),
    W(\hE554,\h001B), W(\hFC4F,\h315A), W(\hD762,\h6299), W(\hCE79,\h53D8),
    W(\h49E1,\h4F17), W(\h50FA,\h7E56), W(\h7BD7,\h2D95), W(\h62CC,\h1CD4),
    W(\h2D8D,\h8A13), W(\h3496,\hBB52), W(\h1FBB,\hE891), W(\h06A0,\hD9D0),
    W(\h5E7E,\hF3EC), W(\h4765,\hC2AD), W(\h6C48,\h916E), W(\h7553,\hA02F),
    W(\h3A12,\h36E8), W(\h2309,\h07A9), W(\h0824,\h546A), W(\h113F,\h652B),
    W(\h96A7,\h79E4), W(\h8FBC,\h48A5), W(\hA491,\h1B66), W(\hBD8A,\h2A27),
    W(\hF2CB,\hBCE0), W(\hEBD0,\h8DA1), W(\hC0FD,\hDE62), W(\hD9E6,\hEF23),
    W(\h14BC,\hE1BD), W(\h0DA7,\hD0FC), W(\h268A,\h833F), W(\h3F91,\hB27E),
    W(\h70D0,\h24B9), W(\h69CB,\h15F8), W(\h42E6,\h463B), W(\h5BFD,\h777A),
    W(\hDC65,\h6BB5), W(\hC57E,\h5AF4), W(\hEE53,\h0937), W(\hF748,\h3876),
    W(\hB809,\hAEB1), W(\hA112,\h9FF0), W(\h8A3F,\hCC33), W(\h9324,\hFD72)
  >>,
  <<
    W(\h0000,\h0000), W(\h01C2,\h6A37), W(\h0384,\hD46E), W(\h0246,\hBE59),
    W(\h0709,\hA8DC), W(\h06CB,\hC2EB), W(\h048D,\h7CB2), W(\h054F,\h1685),
    W(\h0E13,\h51B8), W(\h0FD1,\h3B8F), W(\h0D97,\h85D6), W(\h0C55,\hEFE1),
    W(\h091A,\hF964), W(\h08D8,\h9353), W(\h0A9E,\h2D0A), W(\h0B5C,\h473D),
    W(\h1C26,\hA370), W(\h1DE4,\hC947), W(\h1FA2,\h771E), W(\h1E60,\h1D29),
    W(\h1B2F,\h0BAC), W(\h1AED,\h619B), W(\h18AB,\hDFC2), W(\h1969,\hB5F5),
    W(\h1235,\hF2C8), W(\h13F7,\h98FF), W(\h11B1,\h26A6), W(\h1073,\h4C91),
    W(\h153C,\h5A14), W(\h14FE,\h3023), W(\h16B8,\h8E7A), W(\h177A,\hE44D),
    W(\h384D,\h46E0), W(\h398F,\h2CD7), W(\h3BC9,\h928E), W(\h3A0B,\hF8B9),
    W(\h3F44,\hEE3C), W(\h3E86,\h840B), W(\h3CC0,\h3A52), W(\h3D02,\h5065),
    W(\h365E,\h1758), W(\h379C,\h7D6F), W(\h35DA,\hC336), W(\h3418,\hA901),
    W(\h3157,\hBF84), W(\h3095,\hD5B3), W(\h32D3,\h6BEA), W(\h3311,\h01DD),
    W(\h246B,\hE590), W(\h25A9,\h8FA7), W(\h27EF,\h31FE), W(\h262D,\h5BC9),
    W(\h2362,\h4D4C), W(\h22A0,\h277B), W(\h20E6,\h9922), W(\h2124,\hF315),
    W(\h2A78,\hB428), W(\h2BBA,\hDE1F), W(\h29FC,\h6046), W(\h283E,\h0A71),
    W(\h2D71,\h1CF4), W(\h2CB3,\h76C3), W(\h2EF5,\hC89A), W(\h2F37,\hA2AD),
    W(\h709A,\h8DC0), W(\h7158,\hE7F7), W(\h731E,\h59AE), W(\h72DC,\h3399),
    W(\h7793,\h251C), W(\h7651,\h4F2B), W(\h7417,\hF172), W(\h75D5,\h9B45),
    W(\h7E89,\hDC78), W(\h7F4B,\hB64F), W(\h7D0D,\h0816), W(\h7CCF,\h6221),
    W(\h7980,\h74A4), W(\h7842,\h1E93), W(\h7A04,\hA0CA), W(\h7BC6,\hCAFD),
    W(\h6CBC,\h2EB0), W(\h6D7E,\h4487), W(\h6F38,\hFADE), W(\h6EFA,\h90E9),
    W(\h6BB5,\h866C), W(\h6A77,\hEC5B), W(\h6831,\h5202), W(\h69F3,\h3835),
    W(\h62AF,\h7F08), W(\h636D,\h153F), W(\h612B,\hAB66), W(\h60E9,\hC151),
    W(\h65A6,\hD7D4), W(\h6464,\hBDE3), W(\h6622,\h03BA), W(\h67E0,\h698D),
    W(\h48D7,\hCB20), W(\h4915,\hA117), W(\h4B53,\h1F4E), W(\h4A91,\h7579),
    W(\h4FDE,\h63FC), W(\h4E1C,\h09CB), W(\h4C5A,\hB792), W(\h4D98,\hDDA5),
    W(\h46C4,\h9A98), W(\h4706,\hF0AF), W(\h4540,\h4EF6), W(\h4482,\h24C1),
    W(\h41CD,\h3244), W(\h400F,\h5873), W(\h4249,\hE62A), W(\h438B,\h8C1D),
    W(\h54F1,\h6850), W(\h5533,\h0267), W(\h5775,\hBC3E), W(\h56B7,\hD609),
    W(\h53F8,\hC08C), W(\h523A,\hAABB), W(\h507C,\h14E2), W(\h51BE,\h7ED5),
    W(\h5AE2,\h39E8), W(\h5B20,\h53DF), W(\h5966,\hED86), W(\h58A4,\h87B1),
    W(\h5DEB,\h9134), W(\h5C29,\hFB03), W(\h5E6F,\h455A), W(\h5FAD,\h2F6D),
    W(\hE135,\h1B80), W(\hE0F7,\h71B7), W(\hE2B1,\hCFEE), W(\hE373,\hA5D9),
    W(\hE63C,\hB35C), W(\hE7FE,\hD96B), W(\hE5B8,\h6732), W(\hE47A,\h0D05),
    W(\hEF26,\h4A38), W(\hEEE4,\h200F), W(\hECA2,\h9E56), W(\hED60,\hF461),
    W(\hE82F,\hE2E4), W(\hE9ED,\h88D3), W(\hEBAB,\h368A), W(\hEA69,\h5CBD),
    W(\hFD13,\hB8F0), W(\hFCD1,\hD2C7), W(\hFE97,\h6C9E), W(\hFF55,\h06A9),
    W(\hFA1A,\h102C), W(\hFBD8,\h7A1B), W(\hF99E,\hC442), W(\hF85C,\hAE75),
    W(\hF300,\hE948), W(\hF2C2,\h837F), W(\hF084,\h3D26), W(\hF146,\h5711),
    W(\hF409,\h4194), W(\hF5CB,\h2BA3), W(\hF78D,\h95FA), W(\hF64F,\hFFCD),
    W(\hD978,\h5D60), W(\hD8BA,\h3757), W(\hDAFC,\h890E), W(\hDB3E,\hE339),
    W(\hDE71,\hF5BC), W(\hDFB3,\h9F8B), W(\hDDF5,\h21D2), W(\hDC37,\h4BE5),
    W(\hD76B,\h0CD8), W(\hD6A9,\h66EF), W(\hD4EF,\hD8B6), W(\hD52D,\hB281),
    W(\hD062,\hA404), W(\hD1A0,\hCE33), W(\hD3E6,\h706A), W(\hD224,\h1A5D),
    W(\hC55E,\hFE10), W(\hC49C,\h9427), W(\hC6DA,\h2A7E), W(\hC718,\h4049),
    W(\hC257,\h56CC), W(\hC395,\h3CFB), W(\hC1D3,\h82A2), W(\hC011,\hE895),
    W(\hCB4D,\hAFA8), W(\hCA8F,\hC59F), W(\hC8C9,\h7BC6), W(\hC90B,\h11F1),
    W(\hCC44,\h0774), W(\hCD86,\h6D43), W(\hCFC0,\hD31A), W(\hCE02,\hB92D),
    W(\h91AF,\h9640), W(\h906D,\hFC77), W(\h922B,\h422E), W(\h93E9,\h2819),
    W(\h96A6,\h3E9C), W(\h9764,\h54AB), W(\h9522,\hEAF2), W(\h94E0,\h80C5),
    W(\h9FBC,\hC7F8), W(\h9E7E,\hADCF), W(\h9C38,\h1396), W(\h9DFA,\h79A1),
    W(\h98B5,\h6F24), W(\h9977,\h0513), W(\h9B31,\hBB4A), W(\h9AF3,\hD17D),
    W(\h8D89,\h3530), W(\h8C4B,\h5F07), W(\h8E0D,\hE15E), W(\h8FCF,\h8B69),
    W(\h8A80,\h9DEC), W(\h8B42,\hF7DB), W(\h8904,\h4982), W(\h88C6,\h23B5),
    W(\h839A,\h6488), W(\h8258,\h0EBF), W(\h801E,\hB0E6), W(\h81DC,\hDAD1),
    W(\h8493,\hCC54), W(\h8551,\hA663), W(\h8717,\h183A), W(\h86D5,\h720D),
    W(\hA9E2,\hD0A0), W(\hA820,\hBA97), W(\hAA66,\h04CE), W(\hABA4,\h6EF9),
    W(\hAEEB,\h787C), W(\hAF29,\h124B), W(\hAD6F,\hAC12), W(\hACAD,\hC625),
    W(\hA7F1,\h8118), W(\hA633,\hEB2F), W(\hA475,\h5576), W(\hA5B7,\h3F41),
    W(\hA0F8,\h29C4), W(\hA13A,\h43F3), W(\hA37C,\hFDAA), W(\hA2BE,\h979D),
    W(\hB5C4,\h73D0), W(\hB406,\h19E7), W(\hB640,\hA7BE), W(\hB782,\hCD89),
    W(\hB2CD,\hDB0C), W(\hB30F,\hB13B), W(\hB149,\h0F62), W(\hB08B,\h6555),
    W(\hBBD7,\h2268), W(\hBA15,\h485F), W(\hB853,\hF606), W(\hB991,\h9C31),
    W(\hBCDE,\h8AB4), W(\hBD1C,\hE083), W(\hBF5A,\h5EDA), W(\hBE98,\h34ED)
  >>,
  <<
    W(\h0000,\h0000), W(\hB8BC,\h6765), W(\hAA09,\hC88B), W(\h12B5,\hAFEE),
    W(\h8F62,\h9757), W(\h37DE,\hF032), W(\h256B,\h5FDC), W(\h9DD7,\h38B9),
    W(\hC5B4,\h28EF), W(\h7D08,\h4F8A), W(\h6FBD,\hE064), W(\hD701,\h8701),
    W(\h4AD6,\hBFB8), W(\hF26A,\hD8DD), W(\hE0DF,\h7733), W(\h5863,\h1056),
    W(\h5019,\h579F), W(\hE8A5,\h30FA), W(\hFA10,\h9F14), W(\h42AC,\hF871),
    W(\hDF7B,\hC0C8), W(\h67C7,\hA7AD), W(\h7572,\h0843), W(\hCDCE,\h6F26),
    W(\h95AD,\h7F70), W(\h2D11,\h1815), W(\h3FA4,\hB7FB), W(\h8718,\hD09E),
    W(\h1ACF,\hE827), W(\hA273,\h8F42), W(\hB0C6,\h20AC), W(\h087A,\h47C9),
    W(\hA032,\hAF3E), W(\h188E,\hC85B), W(\h0A3B,\h67B5), W(\hB287,\h00D0),
    W(\h2F50,\h3869), W(\h97EC,\h5F0C), W(\h8559,\hF0E2), W(\h3DE5,\h9787),
    W(\h6586,\h87D1), W(\hDD3A,\hE0B4), W(\hCF8F,\h4F5A), W(\h7733,\h283F),
    W(\hEAE4,\h1086), W(\h5258,\h77E3), W(\h40ED,\hD80D), W(\hF851,\hBF68),
    W(\hF02B,\hF8A1), W(\h4897,\h9FC4), W(\h5A22,\h302A), W(\hE29E,\h574F),
    W(\h7F49,\h6FF6), W(\hC7F5,\h0893), W(\hD540,\hA77D), W(\h6DFC,\hC018),
    W(\h359F,\hD04E), W(\h8D23,\hB72B), W(\h9F96,\h18C5), W(\h272A,\h7FA0),
    W(\hBAFD,\h4719), W(\h0241,\h207C), W(\h10F4,\h8F92), W(\hA848,\hE8F7),
    W(\h9B14,\h583D), W(\h23A8,\h3F58), W(\h311D,\h90B6), W(\h89A1,\hF7D3),
    W(\h1476,\hCF6A), W(\hACCA,\hA80F), W(\hBE7F,\h07E1), W(\h06C3,\h6084),
    W(\h5EA0,\h70D2), W(\hE61C,\h17B7), W(\hF4A9,\hB859), W(\h4C15,\hDF3C),
    W(\hD1C2,\hE785), W(\h697E,\h80E0), W(\h7BCB,\h2F0E), W(\hC377,\h486B),
    W(\hCB0D,\h0FA2), W(\h73B1,\h68C7), W(\h6104,\hC729), W(\hD9B8,\hA04C),
    W(\h446F,\h98F5), W(\hFCD3,\hFF90), W(\hEE66,\h507E), W(\h56DA,\h371B),
    W(\h0EB9,\h274D), W(\hB605,\h4028), W(\hA4B0,\hEFC6), W(\h1C0C,\h88A3),
    W(\h81DB,\hB01A), W(\h3967,\hD77F), W(\h2BD2,\h7891), W(\h936E,\h1FF4),
    W(\h3B26,\hF703), W(\h839A,\h9066), W(\h912F,\h3F88), W(\h2993,\h58ED),
    W(\hB444,\h6054), W(\h0CF8,\h0731), W(\h1E4D,\hA8DF), W(\hA6F1,\hCFBA),
    W(\hFE92,\hDFEC), W(\h462E,\hB889), W(\h549B,\h1767), W(\hEC27,\h7002),
    W(\h71F0,\h48BB), W(\hC94C,\h2FDE), W(\hDBF9,\h8030), W(\h6345,\hE755),
    W(\h6B3F,\hA09C), W(\hD383,\hC7F9), W(\hC136,\h6817), W(\h798A,\h0F72),
    W(\hE45D,\h37CB), W(\h5CE1,\h50AE), W(\h4E54,\hFF40), W(\hF6E8,\h9825),
    W(\hAE8B,\h8873), W(\h1637,\hEF16), W(\h0482,\h40F8), W(\hBC3E,\h279D),
    W(\h21E9,\h1F24), W(\h9955,\h7841), W(\h8BE0,\hD7AF), W(\h335C,\hB0CA),
    W(\hED59,\hB63B), W(\h55E5,\hD15E), W(\h4750,\h7EB0), W(\hFFEC,\h19D5),
    W(\h623B,\h216C), W(\hDA87,\h4609), W(\hC832,\hE9E7), W(\h708E,\h8E82),
    W(\h28ED,\h9ED4), W(\h9051,\hF9B1), W(\h82E4,\h565F), W(\h3A58,\h313A),
    W(\hA78F,\h0983), W(\h1F33,\h6EE6), W(\h0D86,\hC108), W(\hB53A,\hA66D),
    W(\hBD40,\hE1A4), W(\h05FC,\h86C1), W(\h1749,\h292F), W(\hAFF5,\h4E4A),
    W(\h3222,\h76F3), W(\h8A9E,\h1196), W(\h982B,\hBE78), W(\h2097,\hD91D),
    W(\h78F4,\hC94B), W(\hC048,\hAE2E), W(\hD2FD,\h01C0), W(\h6A41,\h66A5),
    W(\hF796,\h5E1C), W(\h4F2A,\h3979), W(\h5D9F,\h9697), W(\hE523,\hF1F2),
    W(\h4D6B,\h1905), W(\hF5D7,\h7E60), W(\hE762,\hD18E), W(\h5FDE,\hB6EB),
    W(\hC209,\h8E52), W(\h7AB5,\hE937), W(\h6800,\h46D9), W(\hD0BC,\h21BC),
    W(\h88DF,\h31EA), W(\h3063,\h568F), W(\h22D6,\hF961), W(\h9A6A,\h9E04),
    W(\h07BD,\hA6BD), W(\hBF01,\hC1D8), W(\hADB4,\h6E36), W(\h1508,\h0953),
    W(\h1D72,\h4E9A), W(\hA5CE,\h29FF), W(\hB77B,\h8611), W(\h0FC7,\hE174),
    W(\h9210,\hD9CD), W(\h2AAC,\hBEA8), W(\h3819,\h1146), W(\h80A5,\h7623),
    W(\hD8C6,\h6675), W(\h607A,\h0110), W(\h72CF,\hAEFE), W(\hCA73,\hC99B),
    W(\h57A4,\hF122), W(\hEF18,\h9647), W(\hFDAD,\h39A9), W(\h4511,\h5ECC),
    W(\h764D,\hEE06), W(\hCEF1,\h8963), W(\hDC44,\h268D), W(\h64F8,\h41E8),
    W(\hF92F,\h7951), W(\h4193,\h1E34), W(\h5326,\hB1DA), W(\hEB9A,\hD6BF),
    W(\hB3F9,\hC6E9), W(\h0B45,\hA18C), W(\h19F0,\h0E62), W(\hA14C,\h6907),
    W(\h3C9B,\h51BE), W(\h8427,\h36DB), W(\h9692,\h9935), W(\h2E2E,\hFE50),
    W(\h2654,\hB999), W(\h9EE8,\hDEFC), W(\h8C5D,\h7112), W(\h34E1,\h1677),
    W(\hA936,\h2ECE), W(\h118A,\h49AB), W(\h033F,\hE645), W(\hBB83,\h8120),
    W(\hE3E0,\h9176), W(\h5B5C,\hF613), W(\h49E9,\h59FD), W(\hF155,\h3E98),
    W(\h6C82,\h0621), W(\hD43E,\h6144), W(\hC68B,\hCEAA), W(\h7E37,\hA9CF),
    W(\hD67F,\h4138), W(\h6EC3,\h265D), W(\h7C76,\h89B3), W(\hC4CA,\hEED6),
    W(\h591D,\hD66F), W(\hE1A1,\hB10A), W(\hF314,\h1EE4), W(\h4BA8,\h7981),
    W(\h13CB,\h69D7), W(\hAB77,\h0EB2), W(\hB9C2,\hA15C), W(\h017E,\hC639),
    W(\h9CA9,\hFE80), W(\h2415,\h99E5), W(\h36A0,\h360B), W(\h8E1C,\h516E),
    W(\h8666,\h16A7), W(\h3EDA,\h71C2), W(\h2C6F,\hDE2C), W(\h94D3,\hB949),
    W(\h0904,\h81F0), W(\hB1B8,\hE695), W(\hA30D,\h497B), W(\h1BB1,\h2E1E),
    W(\h43D2,\h3E48), W(\hFB6E,\h592D), W(\hE9DB,\hF6C3), W(\h5167,\h91A6),
    W(\hCCB0,\hA91F), W(\h740C,\hCE7A), W(\h66B9,\h6194), W(\hDE05,\h06F1)
  >>
>>

\* crc32_tab[k][n], both counted from 0 as in the source
Tab(k, n) == crc32_tab[k + 1][n + 1]

(***************************************************************************)
(* Checksum engine                                                         *)
(***************************************************************************)
\* the round of the first loop with the tables taken in the other order
Crc32hStep4Swapped(buf, i, crc) ==
  XorW(XorW(Tab(0, Xor8(crc[1], buf[i])),
            Tab(1, Xor8(crc[2], buf[i + 1]))),
       XorW(Tab(2, Xor8(crc[3], buf[i + 2])),
            Tab(3, Xor8(crc[4], buf[i + 3]))))

\* One round of the first loop of amba_calculate_crc32h_part: the four
\* bytes buf[i..i+3] (i counted from 1 here) folded into crc.
Crc32hStep4(buf, i, crc) ==
  XorW(XorW(Tab(3, Xor8(crc[1], buf[i])),
            Tab(2, Xor8(crc[2], buf[i + 1]))),
       XorW(Tab(1, Xor8(crc[3], buf[i + 2])),
            Tab(0, Xor8(crc[4], buf[i + 3]))))

\* One round of the second loop: the single-byte step on the first table.
Crc32hStep1(octet, crc) == XorW(Tab(0, Xor8(crc[1], octet)), Shr8(crc))

\* Rounds lo..hi of the first loop (round g folds bytes 4g-3..4g).  The
\* range is halved, and the state after the first half is a value before
\* the second half is begun.
RECURSIVE Crc32hRounds(_, _, _, _)
Crc32hRounds(buf, lo, hi, crc) ==
  IF lo > hi THEN crc
  ELSE IF lo = hi THEN Crc32hStep4(buf, 4 * lo - 3, crc)
  ELSE LET mid == (lo + hi) \div 2
       IN  CHOOSE r \in {Crc32hRounds(buf, mid + 1, hi, left) :
                           left \in {Crc32hRounds(buf, lo, mid, crc)}} : TRUE

\* amba_calculate_crc32h_part returns only when the second loop is not
\* entered: that loop never changes len_buf.
Crc32hReturns(buf) == Len(buf) % 4 = 0

\* The value amba_calculate_crc32h_part(buf, pcrc) returns, when it returns.
amba_calculate_crc32h_part(buf, pcrc) ==
  Crc32hRounds(buf, 1, Len(buf) \div 4, pcrc)

\* zlib's running CRC-32 over bytes lo..hi of buf, on the complemented state
RECURSIVE ZlibRounds(_, _, _, _)
ZlibRounds(buf, lo, hi, c) ==
  IF lo > hi THEN c
  ELSE IF lo = hi THEN XorW(Tab(0, Xor8(c[1], buf[lo])), Shr8(c))
  ELSE LET mid == (lo + hi) \div 2
       IN  CHOOSE r \in {ZlibRounds(buf, mid + 1, hi, left) :
                           left \in {ZlibRounds(buf, lo, mid, c)}} : TRUE

\* zlib.crc32(buf, pcrc) & 0xffffffff
amba_calculate_crc32b_part(buf, pcrc) ==
  NotW(ZlibRounds(buf, 1, Len(buf), NotW(pcrc)))

amba_calculate_crc32(buf) == amba_calculate_crc32b_part(buf, Zero32)

(***************************************************************************)
(* Binary layout                                                           *)
(***************************************************************************)
\* part_entry_type_id, counted from 0 by PartEntryTypeId
part_entry_type_id == <<"bst", "bld", "fw_up", "", "lrtos", "dsp", "romfs", "lnx", "rfs">>

post_head_data == <<
  \h1C, \hCA, \h00, \h10, \h01, \h00, \h00, \h00, \h00, \h10, \h00, \h00,
  \h28, \hCA, \h00, \h10, \h01, \h00, \h00, \h00, \h00, \h00, \h04, \h00,
  \h34, \hCA, \h00, \h10, \h01, \h00, \h00, \h00, \h00, \h00, \h10, \h00,
  \h80, \hC9, \h00, \h10, \h00, \h00, \h00, \h00, \h00, \h10, \h00, \h00,
  \h8C, \hC9, \h00, \h10, \h09, \h00, \h00, \h00, \h00, \h00, \h00, \h02,
  \h94, \hC9, \h00, \h10, \h01, \h00, \h00, \h00, \h00, \h00, \h50, \h00,
  \hA0, \hC9, \h00, \h10, \h01, \h00, \h00, \h00, \h00, \h00, \h40, \h01,
  \hAC, \hC9, \h00, \h10, \h09, \h00, \h00, \h00, \h00, \h00, \hA0, \h00,
  \hBC, \hC9, \h00, \h10, \h00, \h00, \h00, \h00, \h00, \h00, \hC0, \h03,
  \hC8, \hC9, \h00, \h10, \h00, \h00, \h00, \h00, \h00, \h00, \hE0, \h01,
  \hD8, \hC9, \h00, \h10, \h10, \h00, \h00, \h00, \h00, \h00, \h80, \h01,
  \hE8, \hC9, \h00, \h10, \h10, \h00, \h00, \h00, \h00, \h00, \h10, \h00,
  \hF0, \hC9, \h00, \h10, \h10, \h00, \h00, \h00, \h00, \h00, \h04, \h00,
  \h00, \hCA, \h00, \h10, \h10, \h00, \h00, \h00, \h00, \h00, \h50, \h00,
  \h08, \hCA, \h00, \h10, \h10, \h00, \h00, \h00, \h00, \h00, \h50, \h00,
  \h10, \hCA, \h00, \h10, \h00, \h00, \h00, \h00, \h00, \h00, \h58, \h03
>>

post_file_data == <<
  \h58, \h69, \h61, \h6F, \h59, \h69, \h5F, \h7A,
  \h68, \h2D, \h63, \h6E, \h00, \h00, \h00, \h00
>>

\* sizeof(FwModA9Header): model_name (c_char * 32), crc32
SizeofModHead == 36
\* sizeof(FwModEntry): dt_len, crc32
SizeofEntry == 8
\* sizeof(FwModA9PostHeader): fixed_data (c_uint * 48)
SizeofPostHead == 192
\* sizeof(FwModPartHeader): eight words and padding (c_uint * 56)
SizeofPartHead == 256
\* the size of one read of the payload copy loops
ChunkSize == 1048576
\* the entry count the boundary detector gives up beyond
MaxEntryScan == 128

\* 0xA324EB90
PartMagic == W(\hA324, \hEB90)
\* 128*1024*1024
MaxPartLen == W(\h0800, \h0000)

\* b'YDXJ_Z16'
NameZ16 == <<89, 68, 88, 74, 95, 90, 49, 54>>

Min(a, b) == IF a < b THEN a ELSE b

\* The structures are kept as their raw bytes; a field is the word at its
\* offset (counted from 0).
Field(s, off) == SubSeq(s, off + 1, off + 4)
SetField(s, off, w) == [k \in 1..Len(s) |-> IF k > off /\ k <= off + 4 THEN w[k - off] ELSE s[k]]

\* FwModA9Header
MH_model_name(h) == SubSeq(h, 1, 32)
MH_crc32(h) == Field(h, 32)
\* FwModEntry
ME_dt_len(en) == Field(en, 0)
ME_crc32(en) == Field(en, 4)
MakeEntry(len, crc) == len \o crc
\* FwModPartHeader
PH_crc32(h) == Field(h, 0)
PH_version(h) == Field(h, 4)
PH_build_date(h) == Field(h, 8)
PH_dt_len(h) == Field(h, 12)
PH_mem_addr(h) == Field(h, 16)
PH_flag1(h) == Field(h, 20)
PH_magic(h) == Field(h, 24)
PH_flag2(h) == Field(h, 28)
PH_padding(h) == [k \in 1..56 |-> Field(h, 32 + 4 * (k - 1))]

\* FwModPartHeader.build_date_year, build_date_month, build_date_day
build_date_year(h) == Hi16(PH_build_date(h))
build_date_month(h) == PH_build_date(h)[2]
build_date_day(h) == PH_build_date(h)[1]
\* FwModPartHeader.version_major, version_minor
version_major(h) == Hi16(PH_version(h))
version_minor(h) == Lo16(PH_version(h))

\* the value a c_char array field reads as: the bytes before the first NUL
RECURSIVE CString(_)
CString(s) == IF s = <<>> \/ Head(s) = 0 THEN <<>> ELSE <<Head(s)>> \o CString(Tail(s))

\* amba_a9_part_entry_type_id(i)
amba_a9_part_entry_type_id(i) ==
  IF i >= Len(part_entry_type_id)
  THEN (IF i < 10 THEN "0" \o ToString(i) ELSE ToString(i))
  ELSE part_entry_type_id[i + 1]

(***************************************************************************)
(* A file stream: its bytes and the position of the next read or write     *)
(***************************************************************************)
\* what read(n) / readinto of n bytes returns at the current position
ReadAt(f, n) == SubSeq(f.data, f.pos + 1, Min(f.pos + n, Len(f.data)))

\* the stream after write(buf) at the current position
WriteAt(f, buf) ==
  [data |-> SubSeq(f.data, 1, f.pos) \o buf
            \o SubSeq(f.data, f.pos + Len(buf) + 1, Len(f.data)),
   pos  |-> f.pos + Len(buf)]

\* readinto(struct): the bytes read, the rest of the structure left zero
IntoStruct(got, size) == got \o Zeros(size - Len(got))

(***************************************************************************)
(* Sidecar text: what the .a9h files hold and how it is read back          *)
(***************************************************************************)
\* "{:08X}".format(w): eight hexadecimal digits, most significant first
Hex8(w) ==
  <<w[4] \div 16, w[4] % 16, w[3] \div 16, w[3] % 16,
    w[2] \div 16, w[2] % 16, w[1] \div 16, w[1] % 16>>

\* int(s, 16) of eight digits, stored into a c_uint
ParseHex8(d) ==
  <<d[7] * 16 + d[8], d[5] * 16 + d[6], d[3] * 16 + d[4], d[1] * 16 + d[2]>>

\* "{:d}".format(n): decimal digits, most significant first
RECURSIVE DecDigits(_)
DecDigits(n) == IF n < 10 THEN <<n>> ELSE DecDigits(n \div 10) \o <<n % 10>>

\* "{:02d}".format(n)
Dec2(n) == IF n < 10 THEN <<0, n>> ELSE DecDigits(n)

\* int(s, 10)
RECURSIVE ParseDec(_)
ParseDec(d) ==
  IF d = <<>> THEN 0
  ELSE 10 * ParseDec(SubSeq(d, 1, Len(d) - 1)) + d[Len(d)]

\* FwModPartHeader.dict_export / ini_export: the options of a partition's
\* .a9h file.  added_part is appended later by amba_extract: <<>> until
\* then, <<name>> after.
PartHeadExport(h) ==
  [mem_addr   |-> Hex8(PH_mem_addr(h)),
   version    |-> <<DecDigits(version_major(h)), DecDigits(version_minor(h))>>,
   build_date |-> <<DecDigits(build_date_year(h)), Dec2(build_date_month(h)),
                    Dec2(build_date_day(h))>>,
   flag1      |-> Hex8(PH_flag1(h)),
   flag2      |-> Hex8(PH_flag2(h)),
   added_part |-> <<>>]

\* ((major & 0xffff) << 16) + (minor % 0xffff)
PackVersion(major, minor) == W(major % 65536, minor % 65535)

\* ((year & 0xffff) << 16) + ((month & 0xff) << 8) + (day & 0xff)
PackDate(year, month, day) ==
  <<day % 256, month % 256, year % 256, (year \div 256) % 256>>

\* amba_read_part_head: the header built from a partition's .a9h options;
\* crc32, dt_len and the padding stay zero.
amba_read_part_head(t) ==
  Zero32
  \o PackVersion(ParseDec(t.version[1]), ParseDec(t.version[2]))
  \o PackDate(ParseDec(t.build_date[1]), ParseDec(t.build_date[2]),
              ParseDec(t.build_date[3]))
  \o Zero32
  \o ParseHex8(t.mem_addr)
  \o ParseHex8(t.flag1)
  \o PartMagic
  \o ParseHex8(t.flag2)
  \o Zeros(224)

(***************************************************************************)
(* The header options file.  <prefix>_header.a9h is written as text and    *)
(* read back by configparser.ConfigParser (section "asection" chained in   *)
(* front); text is kept as the sequence of its code points.  A step that   *)
(* raises gives ok = FALSE.                                                *)
(***************************************************************************)
\* bytes.decode("utf-8"): the code points, or a UnicodeDecodeError for an
\* ill-formed sequence (stray or missing continuation byte, overlong form,
\* surrogate, beyond U+10FFFF)
RECURSIVE decode(_)
decode(b) ==
  IF b = <<>> THEN [ok |-> TRUE, text |-> <<>>]
  ELSE LET c  == b[1]
           ld == CASE c < 128 -> <<0, 0, 0, c>>
                   [] c >= 194 /\ c <= 223 -> <<1, 128, 191, c % 32>>
                   [] c = 224 -> <<2, 160, 191, 0>>
                   [] c = 237 -> <<2, 128, 159, 13>>
                   [] c >= 225 /\ c <= 239 /\ c # 237 -> <<2, 128, 191, c % 16>>
                   [] c = 240 -> <<3, 144, 191, 0>>
                   [] c >= 241 /\ c <= 243 -> <<3, 128, 191, c % 8>>
                   [] c = 244 -> <<3, 128, 143, 4>>
                   [] OTHER -> <<-1, 0, 0, 0>>
           n  == ld[1]
           wf == /\ n >= 0
                 /\ Len(b) > n
                 /\ \A j \in 2..(n + 1) :
                      /\ b[j] >= (IF j = 2 THEN ld[2] ELSE 128)
                      /\ b[j] <= (IF j = 2 THEN ld[3] ELSE 191)
           cp == CASE n = 0 -> c
                   [] n = 1 -> ld[4] * 64 + (b[2] % 64)
                   [] n = 2 -> (ld[4] * 64 + (b[2] % 64)) * 64 + (b[3] % 64)
                   [] n = 3 -> ((ld[4] * 64 + (b[2] % 64)) * 64 + (b[3] % 64)) * 64 + (b[4] % 64)
           r  == decode(SubSeq(b, n + 2, Len(b)))
       IN  IF wf /\ r.ok THEN [ok |-> TRUE, text |-> <<cp>> \o r.text]
           ELSE [ok |-> FALSE, text |-> <<>>]

\* str.encode("utf-8")
encode(t) ==
  LET one(c) ==
        CASE c < 128 -> <<c>>
          [] c >= 128 /\ c < 2048 -> <<192 + (c \div 64), 128 + (c % 64)>>
          [] c >= 2048 /\ c < 65536 ->
               <<224 + (c \div 4096), 128 + ((c \div 64) % 64), 128 + (c % 64)>>
          [] OTHER ->
               <<240 + (c \div 262144), 128 + ((c \div 4096) % 64),
                 128 + ((c \div 64) % 64), 128 + (c % 64)>>
      RECURSIVE Enc(_, _)
      Enc(lo, hi) ==
        IF lo > hi THEN <<>>
        ELSE IF lo = hi THEN one(t[lo])
        ELSE Enc(lo, (lo + hi) \div 2) \o Enc((lo + hi) \div 2 + 1, hi)
  IN  Enc(1, Len(t))

\* str.isspace of one character: what str.strip takes off and \s matches
isspace(c) ==
  \/ c \in {9, 10, 11, 12, 13, 28, 29, 30, 31, 32, 133, 160, 5760,
            8232, 8233, 8239, 8287, 12288}
  \/ (c >= 8192 /\ c <= 8202)

RECURSIVE lstrip(_)
lstrip(s) == IF s # <<>> /\ isspace(s[1]) THEN lstrip(Tail(s)) ELSE s

RECURSIVE rstrip(_)
rstrip(s) ==
  IF s # <<>> /\ isspace(s[Len(s)]) THEN rstrip(SubSeq(s, 1, Len(s) - 1)) ELSE s

\* optionxform: str.lower of the text s.  runs lists the characters that
\* have another lower case as <<first, last, step, offset>>: every step-th
\* character from first to last, the lower case being offset further on.
\* "I" with a dot above (304) becomes "i" and a combining dot above; the
\* capital sigma (931) becomes the final sigma (962) where a cased
\* character stands before it and none behind it, characters that are
\* ignorable for case passed over on both sides, and the small sigma (963)
\* elsewhere.  ignorable and cased list those characters as
\* <<first, last>>, cased without the ones that are ignorable as well.
lower(s) ==
  LET mapped(runs, ignorable, cased) ==
        LET within(c, rs) == \E k \in 1..Len(rs) : c >= rs[k][1] /\ c <= rs[k][2]
            hit(c, r) == c >= r[1] /\ c <= r[2] /\ (c - r[1]) % r[3] = 0
            one(c) ==
              IF c < 128 THEN (IF c >= 65 /\ c <= 90 THEN c + 32 ELSE c)
              ELSE IF \E k \in 1..Len(runs) : hit(c, runs[k])
              THEN c + runs[CHOOSE k \in 1..Len(runs) : hit(c, runs[k])][4]
              ELSE c
            solid(j) == ~within(s[j], ignorable)
            before(k) == \E j \in 1..(k - 1) :
                           /\ solid(j) /\ within(s[j], cased)
                           /\ \A h \in (j + 1)..(k - 1) : ~solid(h)
            behind(k) == \E j \in (k + 1)..Len(s) :
                           /\ solid(j) /\ within(s[j], cased)
                           /\ \A h \in (k + 1)..(j - 1) : ~solid(h)
            char(k) == CASE s[k] = 931 -> IF before(k) /\ ~behind(k) THEN <<962>> ELSE <<963>>
                         [] s[k] = 304 -> <<105, 775>>
                         [] OTHER      -> <<one(s[k])>>
            RECURSIVE cat(_, _)
            cat(lo, hi) ==
              IF lo > hi THEN <<>>
              ELSE IF lo = hi THEN char(lo)
              ELSE cat(lo, (lo + hi) \div 2) \o cat((lo + hi) \div 2 + 1, hi)
        IN  cat(1, Len(s))
  IN  mapped(
        <<<<65, 90, 1, 32>>, <<192, 214, 1, 32>>, <<216, 222, 1, 32>>, <<256, 302, 2, 1>>,
          <<306, 310, 2, 1>>, <<313, 327, 2, 1>>, <<330, 374, 2, 1>>, <<376, 376, 1, -121>>,
          <<377, 381, 2, 1>>, <<385, 385, 1, 210>>, <<386, 388, 2, 1>>, <<390, 390, 1, 206>>,
          <<391, 391, 1, 1>>, <<393, 394, 1, 205>>, <<395, 395, 1, 1>>, <<398, 398, 1, 79>>,
          <<399, 399, 1, 202>>, <<400, 400, 1, 203>>, <<401, 401, 1, 1>>,
          <<403, 403, 1, 205>>, <<404, 404, 1, 207>>, <<406, 406, 1, 211>>,
          <<407, 407, 1, 209>>, <<408, 408, 1, 1>>, <<412, 412, 1, 211>>,
          <<413, 413, 1, 213>>, <<415, 415, 1, 214>>, <<416, 420, 2, 1>>,
          <<422, 422, 1, 218>>, <<423, 423, 1, 1>>, <<425, 425, 1, 218>>, <<428, 428, 1, 1>>,
          <<430, 430, 1, 218>>, <<431, 431, 1, 1>>, <<433, 434, 1, 217>>, <<435, 437, 2, 1>>,
          <<439, 439, 1, 219>>, <<440, 440, 1, 1>>, <<444, 444, 1, 1>>, <<452, 452, 1, 2>>,
          <<453, 453, 1, 1>>, <<455, 455, 1, 2>>, <<456, 456, 1, 1>>, <<458, 458, 1, 2>>,
          <<459, 475, 2, 1>>, <<478, 494, 2, 1>>, <<497, 497, 1, 2>>, <<498, 500, 2, 1>>,
          <<502, 502, 1, -97>>, <<503, 503, 1, -56>>, <<504, 542, 2, 1>>,
          <<544, 544, 1, -130>>, <<546, 562, 2, 1>>, <<570, 570, 1, 10795>>,
          <<571, 571, 1, 1>>, <<573, 573, 1, -163>>, <<574, 574, 1, 10792>>,
          <<577, 577, 1, 1>>, <<579, 579, 1, -195>>, <<580, 580, 1, 69>>,
          <<581, 581, 1, 71>>, <<582, 590, 2, 1>>, <<880, 882, 2, 1>>, <<886, 886, 1, 1>>,
          <<895, 895, 1, 116>>, <<902, 902, 1, 38>>, <<904, 906, 1, 37>>,
          <<908, 908, 1, 64>>, <<910, 911, 1, 63>>, <<913, 929, 1, 32>>, <<931, 939, 1, 32>>,
          <<975, 975, 1, 8>>, <<984, 1006, 2, 1>>, <<1012, 1012, 1, -60>>,
          <<1015, 1015, 1, 1>>, <<1017, 1017, 1, -7>>, <<1018, 1018, 1, 1>>,
          <<1021, 1023, 1, -130>>, <<1024, 1039, 1, 80>>, <<1040, 1071, 1, 32>>,
          <<1120, 1152, 2, 1>>, <<1162, 1214, 2, 1>>, <<1216, 1216, 1, 15>>,
          <<1217, 1229, 2, 1>>, <<1232, 1326, 2, 1>>, <<1329, 1366, 1, 48>>,
          <<4256, 4293, 1, 7264>>, <<4295, 4295, 1, 7264>>, <<4301, 4301, 1, 7264>>,
          <<5024, 5103, 1, 38864>>, <<5104, 5109, 1, 8>>, <<7312, 7354, 1, -3008>>,
          <<7357, 7359, 1, -3008>>, <<7680, 7828, 2, 1>>, <<7838, 7838, 1, -7615>>,
          <<7840, 7934, 2, 1>>, <<7944, 7951, 1, -8>>, <<7960, 7965, 1, -8>>,
          <<7976, 7983, 1, -8>>, <<7992, 7999, 1, -8>>, <<8008, 8013, 1, -8>>,
          <<8025, 8031, 2, -8>>, <<8040, 8047, 1, -8>>, <<8072, 8079, 1, -8>>,
          <<8088, 8095, 1, -8>>, <<8104, 8111, 1, -8>>, <<8120, 8121, 1, -8>>,
          <<8122, 8123, 1, -74>>, <<8124, 8124, 1, -9>>, <<8136, 8139, 1, -86>>,
          <<8140, 8140, 1, -9>>, <<8152, 8153, 1, -8>>, <<8154, 8155, 1, -100>>,
          <<8168, 8169, 1, -8>>, <<8170, 8171, 1, -112>>, <<8172, 8172, 1, -7>>,
          <<8184, 8185, 1, -128>>, <<8186, 8187, 1, -126>>, <<8188, 8188, 1, -9>>,
          <<8486, 8486, 1, -7517>>, <<8490, 8490, 1, -8383>>, <<8491, 8491, 1, -8262>>,
          <<8498, 8498, 1, 28>>, <<8544, 8559, 1, 16>>, <<8579, 8579, 1, 1>>,
          <<9398, 9423, 1, 26>>, <<11264, 11311, 1, 48>>, <<11360, 11360, 1, 1>>,
          <<11362, 11362, 1, -10743>>, <<11363, 11363, 1, -3814>>,
          <<11364, 11364, 1, -10727>>, <<11367, 11371, 2, 1>>, <<11373, 11373, 1, -10780>>,
          <<11374, 11374, 1, -10749>>, <<11375, 11375, 1, -10783>>,
          <<11376, 11376, 1, -10782>>, <<11378, 11378, 1, 1>>, <<11381, 11381, 1, 1>>,
          <<11390, 11391, 1, -10815>>, <<11392, 11490, 2, 1>>, <<11499, 11501, 2, 1>>,
          <<11506, 11506, 1, 1>>, <<42560, 42604, 2, 1>>, <<42624, 42650, 2, 1>>,
          <<42786, 42798, 2, 1>>, <<42802, 42862, 2, 1>>, <<42873, 42875, 2, 1>>,
          <<42877, 42877, 1, -35332>>, <<42878, 42886, 2, 1>>, <<42891, 42891, 1, 1>>,
          <<42893, 42893, 1, -42280>>, <<42896, 42898, 2, 1>>, <<42902, 42920, 2, 1>>,
          <<42922, 42922, 1, -42308>>, <<42923, 42923, 1, -42319>>,
          <<42924, 42924, 1, -42315>>, <<42925, 42925, 1, -42305>>,
          <<42926, 42926, 1, -42308>>, <<42928, 42928, 1, -42258>>,
          <<42929, 42929, 1, -42282>>, <<42930, 42930, 1, -42261>>, <<42931, 42931, 1, 928>>,
          <<42932, 42946, 2, 1>>, <<42948, 42948, 1, -48>>, <<42949, 42949, 1, -42307>>,
          <<42950, 42950, 1, -35384>>, <<42951, 42953, 2, 1>>, <<42960, 42960, 1, 1>>,
          <<42966, 42968, 2, 1>>, <<42997, 42997, 1, 1>>, <<65313, 65338, 1, 32>>,
          <<66560, 66599, 1, 40>>, <<66736, 66771, 1, 40>>, <<66928, 66938, 1, 39>>,
          <<66940, 66954, 1, 39>>, <<66956, 66962, 1, 39>>, <<66964, 66965, 1, 39>>,
          <<68736, 68786, 1, 64>>, <<71840, 71871, 1, 32>>, <<93760, 93791, 1, 32>>,
          <<125184, 125217, 1, 34>>>>,
        <<<<39, 39>>, <<46, 46>>, <<58, 58>>, <<94, 94>>, <<96, 96>>, <<168, 168>>,
          <<173, 173>>, <<175, 175>>, <<180, 180>>, <<183, 184>>, <<688, 879>>, <<884, 885>>,
          <<890, 890>>, <<900, 901>>, <<903, 903>>, <<1155, 1161>>, <<1369, 1369>>,
          <<1375, 1375>>, <<1425, 1469>>, <<1471, 1471>>, <<1473, 1474>>, <<1476, 1477>>,
          <<1479, 1479>>, <<1524, 1524>>, <<1536, 1541>>, <<1552, 1562>>, <<1564, 1564>>,
          <<1600, 1600>>, <<1611, 1631>>, <<1648, 1648>>, <<1750, 1757>>, <<1759, 1768>>,
          <<1770, 1773>>, <<1807, 1807>>, <<1809, 1809>>, <<1840, 1866>>, <<1958, 1968>>,
          <<2027, 2037>>, <<2042, 2042>>, <<2045, 2045>>, <<2070, 2093>>, <<2137, 2139>>,
          <<2184, 2184>>, <<2192, 2193>>, <<2200, 2207>>, <<2249, 2306>>, <<2362, 2362>>,
          <<2364, 2364>>, <<2369, 2376>>, <<2381, 2381>>, <<2385, 2391>>, <<2402, 2403>>,
          <<2417, 2417>>, <<2433, 2433>>, <<2492, 2492>>, <<2497, 2500>>, <<2509, 2509>>,
          <<2530, 2531>>, <<2558, 2558>>, <<2561, 2562>>, <<2620, 2620>>, <<2625, 2626>>,
          <<2631, 2632>>, <<2635, 2637>>, <<2641, 2641>>, <<2672, 2673>>, <<2677, 2677>>,
          <<2689, 2690>>, <<2748, 2748>>, <<2753, 2757>>, <<2759, 2760>>, <<2765, 2765>>,
          <<2786, 2787>>, <<2810, 2815>>, <<2817, 2817>>, <<2876, 2876>>, <<2879, 2879>>,
          <<2881, 2884>>, <<2893, 2893>>, <<2901, 2902>>, <<2914, 2915>>, <<2946, 2946>>,
          <<3008, 3008>>, <<3021, 3021>>, <<3072, 3072>>, <<3076, 3076>>, <<3132, 3132>>,
          <<3134, 3136>>, <<3142, 3144>>, <<3146, 3149>>, <<3157, 3158>>, <<3170, 3171>>,
          <<3201, 3201>>, <<3260, 3260>>, <<3263, 3263>>, <<3270, 3270>>, <<3276, 3277>>,
          <<3298, 3299>>, <<3328, 3329>>, <<3387, 3388>>, <<3393, 3396>>, <<3405, 3405>>,
          <<3426, 3427>>, <<3457, 3457>>, <<3530, 3530>>, <<3538, 3540>>, <<3542, 3542>>,
          <<3633, 3633>>, <<3636, 3642>>, <<3654, 3662>>, <<3761, 3761>>, <<3764, 3772>>,
          <<3782, 3782>>, <<3784, 3789>>, <<3864, 3865>>, <<3893, 3893>>, <<3895, 3895>>,
          <<3897, 3897>>, <<3953, 3966>>, <<3968, 3972>>, <<3974, 3975>>, <<3981, 3991>>,
          <<3993, 4028>>, <<4038, 4038>>, <<4141, 4144>>, <<4146, 4151>>, <<4153, 4154>>,
          <<4157, 4158>>, <<4184, 4185>>, <<4190, 4192>>, <<4209, 4212>>, <<4226, 4226>>,
          <<4229, 4230>>, <<4237, 4237>>, <<4253, 4253>>, <<4348, 4348>>, <<4957, 4959>>,
          <<5906, 5908>>, <<5938, 5939>>, <<5970, 5971>>, <<6002, 6003>>, <<6068, 6069>>,
          <<6071, 6077>>, <<6086, 6086>>, <<6089, 6099>>, <<6103, 6103>>, <<6109, 6109>>,
          <<6155, 6159>>, <<6211, 6211>>, <<6277, 6278>>, <<6313, 6313>>, <<6432, 6434>>,
          <<6439, 6440>>, <<6450, 6450>>, <<6457, 6459>>, <<6679, 6680>>, <<6683, 6683>>,
          <<6742, 6742>>, <<6744, 6750>>, <<6752, 6752>>, <<6754, 6754>>, <<6757, 6764>>,
          <<6771, 6780>>, <<6783, 6783>>, <<6823, 6823>>, <<6832, 6862>>, <<6912, 6915>>,
          <<6964, 6964>>, <<6966, 6970>>, <<6972, 6972>>, <<6978, 6978>>, <<7019, 7027>>,
          <<7040, 7041>>, <<7074, 7077>>, <<7080, 7081>>, <<7083, 7085>>, <<7142, 7142>>,
          <<7144, 7145>>, <<7149, 7149>>, <<7151, 7153>>, <<7212, 7219>>, <<7222, 7223>>,
          <<7288, 7293>>, <<7376, 7378>>, <<7380, 7392>>, <<7394, 7400>>, <<7405, 7405>>,
          <<7412, 7412>>, <<7416, 7417>>, <<7468, 7530>>, <<7544, 7544>>, <<7579, 7679>>,
          <<8125, 8125>>, <<8127, 8129>>, <<8141, 8143>>, <<8157, 8159>>, <<8173, 8175>>,
          <<8189, 8190>>, <<8203, 8207>>, <<8216, 8217>>, <<8228, 8228>>, <<8231, 8231>>,
          <<8234, 8238>>, <<8288, 8292>>, <<8294, 8303>>, <<8305, 8305>>, <<8319, 8319>>,
          <<8336, 8348>>, <<8400, 8432>>, <<11388, 11389>>, <<11503, 11505>>,
          <<11631, 11631>>, <<11647, 11647>>, <<11744, 11775>>, <<11823, 11823>>,
          <<12293, 12293>>, <<12330, 12333>>, <<12337, 12341>>, <<12347, 12347>>,
          <<12441, 12446>>, <<12540, 12542>>, <<40981, 40981>>, <<42232, 42237>>,
          <<42508, 42508>>, <<42607, 42610>>, <<42612, 42621>>, <<42623, 42623>>,
          <<42652, 42655>>, <<42736, 42737>>, <<42752, 42785>>, <<42864, 42864>>,
          <<42888, 42890>>, <<42994, 42996>>, <<43000, 43001>>, <<43010, 43010>>,
          <<43014, 43014>>, <<43019, 43019>>, <<43045, 43046>>, <<43052, 43052>>,
          <<43204, 43205>>, <<43232, 43249>>, <<43263, 43263>>, <<43302, 43309>>,
          <<43335, 43345>>, <<43392, 43394>>, <<43443, 43443>>, <<43446, 43449>>,
          <<43452, 43453>>, <<43471, 43471>>, <<43493, 43494>>, <<43561, 43566>>,
          <<43569, 43570>>, <<43573, 43574>>, <<43587, 43587>>, <<43596, 43596>>,
          <<43632, 43632>>, <<43644, 43644>>, <<43696, 43696>>, <<43698, 43700>>,
          <<43703, 43704>>, <<43710, 43711>>, <<43713, 43713>>, <<43741, 43741>>,
          <<43756, 43757>>, <<43763, 43764>>, <<43766, 43766>>, <<43867, 43871>>,
          <<43881, 43883>>, <<44005, 44005>>, <<44008, 44008>>, <<44013, 44013>>,
          <<64286, 64286>>, <<64434, 64450>>, <<65024, 65039>>, <<65043, 65043>>,
          <<65056, 65071>>, <<65106, 65106>>, <<65109, 65109>>, <<65279, 65279>>,
          <<65287, 65287>>, <<65294, 65294>>, <<65306, 65306>>, <<65342, 65342>>,
          <<65344, 65344>>, <<65392, 65392>>, <<65438, 65439>>, <<65507, 65507>>,
          <<65529, 65531>>, <<66045, 66045>>, <<66272, 66272>>, <<66422, 66426>>,
          <<67456, 67461>>, <<67463, 67504>>, <<67506, 67514>>, <<68097, 68099>>,
          <<68101, 68102>>, <<68108, 68111>>, <<68152, 68154>>, <<68159, 68159>>,
          <<68325, 68326>>, <<68900, 68903>>, <<69291, 69292>>, <<69446, 69456>>,
          <<69506, 69509>>, <<69633, 69633>>, <<69688, 69702>>, <<69744, 69744>>,
          <<69747, 69748>>, <<69759, 69761>>, <<69811, 69814>>, <<69817, 69818>>,
          <<69821, 69821>>, <<69826, 69826>>, <<69837, 69837>>, <<69888, 69890>>,
          <<69927, 69931>>, <<69933, 69940>>, <<70003, 70003>>, <<70016, 70017>>,
          <<70070, 70078>>, <<70089, 70092>>, <<70095, 70095>>, <<70191, 70193>>,
          <<70196, 70196>>, <<70198, 70199>>, <<70206, 70206>>, <<70367, 70367>>,
          <<70371, 70378>>, <<70400, 70401>>, <<70459, 70460>>, <<70464, 70464>>,
          <<70502, 70508>>, <<70512, 70516>>, <<70712, 70719>>, <<70722, 70724>>,
          <<70726, 70726>>, <<70750, 70750>>, <<70835, 70840>>, <<70842, 70842>>,
          <<70847, 70848>>, <<70850, 70851>>, <<71090, 71093>>, <<71100, 71101>>,
          <<71103, 71104>>, <<71132, 71133>>, <<71219, 71226>>, <<71229, 71229>>,
          <<71231, 71232>>, <<71339, 71339>>, <<71341, 71341>>, <<71344, 71349>>,
          <<71351, 71351>>, <<71453, 71455>>, <<71458, 71461>>, <<71463, 71467>>,
          <<71727, 71735>>, <<71737, 71738>>, <<71995, 71996>>, <<71998, 71998>>,
          <<72003, 72003>>, <<72148, 72151>>, <<72154, 72155>>, <<72160, 72160>>,
          <<72193, 72202>>, <<72243, 72248>>, <<72251, 72254>>, <<72263, 72263>>,
          <<72273, 72278>>, <<72281, 72283>>, <<72330, 72342>>, <<72344, 72345>>,
          <<72752, 72758>>, <<72760, 72765>>, <<72767, 72767>>, <<72850, 72871>>,
          <<72874, 72880>>, <<72882, 72883>>, <<72885, 72886>>, <<73009, 73014>>,
          <<73018, 73018>>, <<73020, 73021>>, <<73023, 73029>>, <<73031, 73031>>,
          <<73104, 73105>>, <<73109, 73109>>, <<73111, 73111>>, <<73459, 73460>>,
          <<78896, 78904>>, <<92912, 92916>>, <<92976, 92982>>, <<92992, 92995>>,
          <<94031, 94031>>, <<94095, 94111>>, <<94176, 94177>>, <<94179, 94180>>,
          <<110576, 110579>>, <<110581, 110587>>, <<110589, 110590>>, <<113821, 113822>>,
          <<113824, 113827>>, <<118528, 118573>>, <<118576, 118598>>, <<119143, 119145>>,
          <<119155, 119170>>, <<119173, 119179>>, <<119210, 119213>>, <<119362, 119364>>,
          <<121344, 121398>>, <<121403, 121452>>, <<121461, 121461>>, <<121476, 121476>>,
          <<121499, 121503>>, <<121505, 121519>>, <<122880, 122886>>, <<122888, 122904>>,
          <<122907, 122913>>, <<122915, 122916>>, <<122918, 122922>>, <<123184, 123197>>,
          <<123566, 123566>>, <<123628, 123631>>, <<125136, 125142>>, <<125252, 125259>>,
          <<127995, 127999>>, <<917505, 917505>>, <<917536, 917631>>, <<917760, 917999>>>>,
        <<<<65, 90>>, <<97, 122>>, <<170, 170>>, <<181, 181>>, <<186, 186>>, <<192, 214>>,
          <<216, 246>>, <<248, 442>>, <<444, 447>>, <<452, 659>>, <<661, 687>>, <<880, 883>>,
          <<886, 887>>, <<891, 893>>, <<895, 895>>, <<902, 902>>, <<904, 906>>, <<908, 908>>,
          <<910, 929>>, <<931, 1013>>, <<1015, 1153>>, <<1162, 1327>>, <<1329, 1366>>,
          <<1376, 1416>>, <<4256, 4293>>, <<4295, 4295>>, <<4301, 4301>>, <<4304, 4346>>,
          <<4349, 4351>>, <<5024, 5109>>, <<5112, 5117>>, <<7296, 7304>>, <<7312, 7354>>,
          <<7357, 7359>>, <<7424, 7467>>, <<7531, 7543>>, <<7545, 7578>>, <<7680, 7957>>,
          <<7960, 7965>>, <<7968, 8005>>, <<8008, 8013>>, <<8016, 8023>>, <<8025, 8025>>,
          <<8027, 8027>>, <<8029, 8029>>, <<8031, 8061>>, <<8064, 8116>>, <<8118, 8124>>,
          <<8126, 8126>>, <<8130, 8132>>, <<8134, 8140>>, <<8144, 8147>>, <<8150, 8155>>,
          <<8160, 8172>>, <<8178, 8180>>, <<8182, 8188>>, <<8450, 8450>>, <<8455, 8455>>,
          <<8458, 8467>>, <<8469, 8469>>, <<8473, 8477>>, <<8484, 8484>>, <<8486, 8486>>,
          <<8488, 8488>>, <<8490, 8493>>, <<8495, 8500>>, <<8505, 8505>>, <<8508, 8511>>,
          <<8517, 8521>>, <<8526, 8526>>, <<8544, 8575>>, <<8579, 8580>>, <<9398, 9449>>,
          <<11264, 11387>>, <<11390, 11492>>, <<11499, 11502>>, <<11506, 11507>>,
          <<11520, 11557>>, <<11559, 11559>>, <<11565, 11565>>, <<42560, 42605>>,
          <<42624, 42651>>, <<42786, 42863>>, <<42865, 42887>>, <<42891, 42894>>,
          <<42896, 42954>>, <<42960, 42961>>, <<42963, 42963>>, <<42965, 42969>>,
          <<42997, 42998>>, <<43002, 43002>>, <<43824, 43866>>, <<43872, 43880>>,
          <<43888, 43967>>, <<64256, 64262>>, <<64275, 64279>>, <<65313, 65338>>,
          <<65345, 65370>>, <<66560, 66639>>, <<66736, 66771>>, <<66776, 66811>>,
          <<66928, 66938>>, <<66940, 66954>>, <<66956, 66962>>, <<66964, 66965>>,
          <<66967, 66977>>, <<66979, 66993>>, <<66995, 67001>>, <<67003, 67004>>,
          <<68736, 68786>>, <<68800, 68850>>, <<71840, 71903>>, <<93760, 93823>>,
          <<119808, 119892>>, <<119894, 119964>>, <<119966, 119967>>, <<119970, 119970>>,
          <<119973, 119974>>, <<119977, 119980>>, <<119982, 119993>>, <<119995, 119995>>,
          <<119997, 120003>>, <<120005, 120069>>, <<120071, 120074>>, <<120077, 120084>>,
          <<120086, 120092>>, <<120094, 120121>>, <<120123, 120126>>, <<120128, 120132>>,
          <<120134, 120134>>, <<120138, 120144>>, <<120146, 120485>>, <<120488, 120512>>,
          <<120514, 120538>>, <<120540, 120570>>, <<120572, 120596>>, <<120598, 120628>>,
          <<120630, 120654>>, <<120656, 120686>>, <<120688, 120712>>, <<120714, 120744>>,
          <<120746, 120770>>, <<120772, 120779>>, <<122624, 122633>>, <<122635, 122654>>,
          <<125184, 125251>>, <<127280, 127305>>, <<127312, 127337>>, <<127344, 127369>>>>)

\* a[1], sep, a[2], ..., a[n] in one sequence: str.join
RECURSIVE join(_, _, _, _)
join(ts, sep, lo, hi) ==
  IF lo > hi THEN <<>>
  ELSE IF lo = hi THEN ts[lo]
  ELSE join(ts, sep, lo, (lo + hi) \div 2) \o <<sep>> \o join(ts, sep, (lo + hi) \div 2 + 1, hi)

\* the pieces of s[lo..hi] between the characters sep: str.split
RECURSIVE split(_, _, _, _)
split(s, sep, lo, hi) ==
  IF lo > hi THEN <<<<>>>>
  ELSE IF lo = hi THEN (IF s[lo] = sep THEN <<<<>>, <<>>>> ELSE <<<<s[lo]>>>>)
  ELSE LET l == split(s, sep, lo, (lo + hi) \div 2)
           r == split(s, sep, (lo + hi) \div 2 + 1, hi)
       IN  SubSeq(l, 1, Len(l) - 1) \o <<l[Len(l)] \o r[1]>> \o Tail(r)

\* amba_extract_mod_head: the options of <prefix>_header.a9h.  The two
\* comment lines are written first; ini_export then decodes the model
\* name and raises when it is not UTF-8, no option written (written FALSE)
ModHeadExport(mh, names, entries) ==
  IF decode(CString(MH_model_name(mh))).ok
  THEN [written    |-> TRUE,
        model_name |-> CString(MH_model_name(mh)),
        part_load  |-> names,
        part_size  |-> [k \in 1..Len(entries) |-> Hex8(ME_dt_len(entries[k]))]]
  ELSE [written |-> FALSE, model_name |-> <<>>, part_load |-> <<>>, part_size |-> <<>>]

\* the lines of the options file as the parser gets them, after the
\* section line and the two comment lines: "model_name=" and the name
\* (a line break in the name, "\n", "\r" or "\r\n", ends a line; "\r"
\* before the break of the line is one break with it), "part_load=" and
\* the tags joined by ",", "part_size=" and the sizes as "{:08x}" joined
\* by ","
HeaderLines(t) ==
  LET RECURSIVE Split(_, _)
      Split(s, cur) ==
        IF s = <<>> THEN <<>>
        ELSE IF s[1] = 13
        THEN <<cur>> \o Split(IF Len(s) > 1 /\ s[2] = 10 THEN Tail(Tail(s)) ELSE Tail(s), <<>>)
        ELSE IF s[1] = 10 THEN <<cur>> \o Split(Tail(s), <<>>)
        ELSE Split(Tail(s), Append(cur, s[1]))
      Digits(n) == [k \in 1..Len(n) |-> 48 + n[k]]
      Tag(s) ==
        CASE s = "bst"   -> <<98, 115, 116>>
          [] s = "bld"   -> <<98, 108, 100>>
          [] s = "fw_up" -> <<102, 119, 95, 117, 112>>
          [] s = ""      -> <<>>
          [] s = "lrtos" -> <<108, 114, 116, 111, 115>>
          [] s = "dsp"   -> <<100, 115, 112>>
          [] s = "romfs" -> <<114, 111, 109, 102, 115>>
          [] s = "lnx"   -> <<108, 110, 120>>
          [] s = "rfs"   -> <<114, 102, 115>>
          [] OTHER       ->
               Digits(Dec2(CHOOSE n \in 0..999 : amba_a9_part_entry_type_id(n) = s))
      Hex(d) == [k \in 1..Len(d) |-> IF d[k] < 10 THEN 48 + d[k] ELSE 87 + d[k]]
      ls == Split(decode(t.model_name).text \o <<10>>, <<>>)
  IN  IF ~t.written THEN <<>>
      ELSE <<<<109, 111, 100, 101, 108, 95, 110, 97, 109, 101, 61>> \o ls[1]>>
           \o Tail(ls)
           \o <<<<112, 97, 114, 116, 95, 108, 111, 97, 100, 61>>
                  \o join([k \in 1..Len(t.part_load) |-> Tag(t.part_load[k])],
                          44, 1, Len(t.part_load)),
                <<112, 97, 114, 116, 95, 115, 105, 122, 101, 61>>
                  \o join([k \in 1..Len(t.part_size) |-> Hex(t.part_size[k])],
                          44, 1, Len(t.part_size))>>

\* RawConfigParser._read, one line.  st is the parser after the section
\* line: the current section and option (<<>> for none), the indent of the
\* last section or option line, the options read (section, name, lines of
\* the value), the sections met, err for a ParsingError kept for the end
\* and raised for a DuplicateSectionError or DuplicateOptionError
ReadLine(st, line) ==
  LET value   == rstrip(lstrip(line))
      comment == value # <<>> /\ value[1] \in {35, 59}
      cur     == Len(line) - Len(lstrip(line))
      more(v) == [k \in 1..Len(st.store) |->
                    IF st.store[k].s = st.sect /\ st.store[k].o = st.opt
                    THEN [st.store[k] EXCEPT !.v = Append(@, v)]
                    ELSE st.store[k]]
      close   == IF \E k \in 1..Len(value) : value[k] = 93
                 THEN CHOOSE k \in 1..Len(value) :
                        value[k] = 93 /\ \A j \in (k + 1)..Len(value) : value[j] # 93
                 ELSE 0
      header  == SubSeq(value, 2, close - 1)
      delim   == IF \E k \in 1..Len(value) : value[k] \in {61, 58}
                 THEN CHOOSE k \in 1..Len(value) :
                        value[k] \in {61, 58} /\ \A j \in 1..(k - 1) : value[j] \notin {61, 58}
                 ELSE 0
      optname == lower(rstrip(SubSeq(value, 1, delim - 1)))
      optval  == rstrip(lstrip(SubSeq(value, delim + 1, Len(value))))
  IN  IF st.raised THEN st
      ELSE IF comment \/ value = <<>>
      THEN (IF ~comment /\ st.opt # <<>> THEN [st EXCEPT !.store = more(<<>>)] ELSE st)
      ELSE IF st.opt # <<>> /\ cur > st.indent
      THEN [st EXCEPT !.store = more(value)]
      ELSE IF value[1] = 91 /\ close >= 3
      THEN (IF header \in st.sections
            THEN [st EXCEPT !.raised = TRUE]
            ELSE [st EXCEPT !.sect = header, !.opt = <<>>, !.indent = cur,
                            !.sections = IF header = <<68, 69, 70, 65, 85, 76, 84>>
                                         THEN @ ELSE @ \cup {header}])
      ELSE IF delim = 0
      THEN [st EXCEPT !.err = TRUE, !.indent = cur]
      ELSE IF \E k \in 1..Len(st.store) :
                st.store[k].s = st.sect /\ st.store[k].o = optname
      THEN [st EXCEPT !.raised = TRUE]
      ELSE [st EXCEPT !.store = Append(@, [s |-> st.sect, o |-> optname, v |-> <<optval>>]),
                      !.opt = optname, !.indent = cur,
                      !.err = @ \/ optname = <<>>]

\* parser.read_file over the lines of the file: the parser at the end
RECURSIVE read_file(_, _)
read_file(st, lines) ==
  IF lines = <<>> THEN st ELSE read_file(ReadLine(st, Head(lines)), Tail(lines))

\* the raw value of an option of "asection", looked up in the section and
\* then in DEFAULT: the lines of the value joined by "\n", blanks at the
\* end taken off (_join_multiline_values)
Lookup(st, o) ==
  LET Join(ts) == join(ts, 10, 1, Len(ts))
      at(s) == {k \in 1..Len(st.store) : st.store[k].s = s /\ st.store[k].o = o}
      a     == at(<<97, 115, 101, 99, 116, 105, 111, 110>>)
      d     == at(<<68, 69, 70, 65, 85, 76, 84>>)
  IN  IF a # {} THEN [ok |-> TRUE, text |-> rstrip(Join(st.store[CHOOSE k \in a : TRUE].v))]
      ELSE IF d # {} THEN [ok |-> TRUE, text |-> rstrip(Join(st.store[CHOOSE k \in d : TRUE].v))]
      ELSE [ok |-> FALSE, text |-> <<>>]

\* BasicInterpolation._interpolate_some: "%%" is "%", "%(name)s" the
\* value of that option (itself interpolated when it holds a "%"), any
\* other "%" an InterpolationSyntaxError, an option that is missing an
\* InterpolationMissingOptionError, deeper than MAX_INTERPOLATION_DEPTH
\* (10) an InterpolationDepthError
RECURSIVE interpolate(_, _, _)
interpolate(st, rest, depth) ==
  LET first(s, c) == IF \E k \in 1..Len(s) : s[k] = c
                     THEN CHOOSE k \in 1..Len(s) : s[k] = c /\ \A j \in 1..(k - 1) : s[j] # c
                     ELSE 0
      p    == first(rest, 37)
      r    == SubSeq(rest, p, Len(rest))
      q    == first(r, 41)
      v    == Lookup(st, lower(SubSeq(r, 3, q - 1)))
      sub  == IF v.ok /\ first(v.text, 37) # 0 THEN interpolate(st, v.text, depth + 1) ELSE v
      then(t, s) == LET a == interpolate(st, s, depth)
                    IN  IF a.ok THEN [ok |-> TRUE, text |-> SubSeq(rest, 1, p - 1) \o t \o a.text]
                        ELSE a
  IN  IF depth > 10 THEN [ok |-> FALSE, text |-> <<>>]
      ELSE IF p = 0 THEN [ok |-> TRUE, text |-> rest]
      ELSE IF Len(r) >= 2 /\ r[2] = 37 THEN then(<<37>>, SubSeq(r, 3, Len(r)))
      ELSE IF Len(r) >= 2 /\ r[2] = 40 /\ q >= 4 /\ Len(r) > q /\ r[q + 1] = 115 /\ sub.ok
      THEN then(sub.text, SubSeq(r, q + 2, Len(r)))
      ELSE [ok |-> FALSE, text |-> <<>>]

\* int(s, 16) stored into a c_uint: blanks around (space, tab, line feed,
\* vertical tab, form feed, carriage return and the spaces beyond ASCII), a
\* sign, "0x" and single underscores between digits are accepted, a decimal
\* digit of any script counts as its ASCII digit; the value is kept modulo
\* 2^32
ParseInt(s) ==
  LET zeros == {48, 1632, 1776, 1984, 2406, 2534, 2662, 2790, 2918, 3046, 3174,
                3302, 3430, 3558, 3664, 3792, 3872, 4160, 4240, 6112, 6160, 6470,
                6608, 6784, 6800, 6992, 7088, 7232, 7248, 42528, 43216, 43264,
                43472, 43504, 43600, 44016, 65296, 66720, 68912, 69734, 69872,
                69942, 70096, 70384, 70736, 70864, 71248, 71360, 71472, 71904,
                72016, 72784, 73040, 73120, 92768, 92864, 93008, 120782, 120792,
                120802, 120812, 120822, 123200, 123632, 125264, 130032}
      ascii(c) == IF \E z \in zeros : c >= z /\ c <= z + 9
                  THEN 48 + c - (CHOOSE z \in zeros : c >= z /\ c <= z + 9)
                  ELSE c
      val(c) == CASE c >= 48 /\ c <= 57  -> c - 48
                  [] c >= 97 /\ c <= 102 -> c - 87
                  [] c >= 65 /\ c <= 70  -> c - 55
                  [] OTHER -> -1
      inc(x) == IF Lo16(x) = 65535 THEN W((Hi16(x) + 1) % 65536, 0)
                ELSE W(Hi16(x), Lo16(x) + 1)
      \* the last eight digits of the digits d
      word(d) == ParseHex8(SubSeq(d, Len(d) - 7, Len(d)))
      \* w: the digits and underscores
      digits(w, neg) ==
        IF /\ w # <<>>
           /\ w[1] # 95 /\ w[Len(w)] # 95
           /\ \A k \in 1..Len(w) :
                IF w[k] = 95 THEN w[k + 1] # 95 ELSE val(w[k]) >= 0
        THEN [ok   |-> TRUE,
              word |-> IF neg
                       THEN inc(NotW(word(Zeros(8) \o [k \in 1..Len(SelectSeq(w, LAMBDA c : c # 95)) |->
                                                         val(SelectSeq(w, LAMBDA c : c # 95)[k])])))
                       ELSE word(Zeros(8) \o [k \in 1..Len(SelectSeq(w, LAMBDA c : c # 95)) |->
                                                val(SelectSeq(w, LAMBDA c : c # 95)[k])])]
        ELSE [ok |-> FALSE, word |-> Zero32]
      \* u: the text behind the sign
      prefixed(u, neg) ==
        IF Len(u) >= 2 /\ u[1] = 48 /\ u[2] \in {120, 88}
        THEN digits(IF Len(u) >= 3 /\ u[3] = 95 THEN SubSeq(u, 4, Len(u))
                    ELSE SubSeq(u, 3, Len(u)), neg)
        ELSE digits(u, neg)
      \* t: the text without the blanks around
      signed(t) ==
        IF t # <<>> /\ t[1] \in {43, 45} THEN prefixed(Tail(t), t[1] = 45)
        ELSE prefixed(t, FALSE)
      \* what int takes off at both ends: the blanks of ASCII (28 to 31 are
      \* none of them) and every other character that is a space
      blank(c) == c \in {9, 10, 11, 12, 13, 32} \/ (c >= 128 /\ isspace(c))
      strip(t) ==
        IF \A k \in 1..Len(t) : blank(t[k]) THEN <<>>
        ELSE SubSeq(t, CHOOSE k \in 1..Len(t) : ~blank(t[k]) /\ \A j \in 1..(k - 1) : blank(t[j]),
                       CHOOSE k \in 1..Len(t) : ~blank(t[k]) /\ \A j \in (k + 1)..Len(t) : blank(t[j]))
      digit(t) == [k \in 1..Len(t) |-> ascii(t[k])]
  IN  signed(digit(strip(s)))

\* amba_read_mod_head: the options are read, part_load and part_size split
\* at ",", the model name encoded and stored into the 32-byte field of a
\* new header, the checksum left zero; one entry per part_size with its
\* checksum zero.  The store takes the bytes before the first NUL (a
\* ValueError when they are more than 32) and leaves the rest of the field
\* zero.  Any step that raises ends the call.
\* A tag is given as text; a character outside printable ASCII, and the
\* grave accent, stands as "\x" and its number.
ReadModHead(t) ==
  LET chars == <<" ", "!", "\"", "#", "$", "%", "&", "'", "(", ")", "*", "+", ",", "-",
                 ".", "/", "0", "1", "2", "3", "4", "5", "6", "7", "8", "9", ":", ";",
                 "<", "=", ">", "?", "@", "A", "B", "C", "D", "E", "F", "G", "H", "I",
                 "J", "K", "L", "M", "N", "O", "P", "Q", "R", "S", "T", "U", "V", "W",
                 "X", "Y", "Z", "[", "\\", "]", "^", "_", "\\x96", "a", "b", "c", "d", "e",
                 "f", "g", "h", "i", "j", "k", "l", "m", "n", "o", "p", "q", "r", "s",
                 "t", "u", "v", "w", "x", "y", "z", "{", "|", "}", "~">>
      RECURSIVE Str(_)
      Str(s) ==
        IF s = <<>> THEN ""
        ELSE (IF s[1] >= 32 /\ s[1] <= 126 THEN chars[s[1] - 31]
              ELSE "\\x" \o ToString(s[1])) \o Str(Tail(s))
      \* parser.get("asection", o): NoOptionError when the option is in
      \* neither the section nor DEFAULT, the interpolated value otherwise
      get(st, o) ==
        IF Lookup(st, o).ok THEN interpolate(st, Lookup(st, o).text, 1)
        ELSE [ok |-> FALSE, text |-> <<>>]
      failed == [ok |-> FALSE, modhead |-> Zeros(SizeofModHead), ptyp_names |-> <<>>,
                 modentries |-> <<>>]
      \* name: the bytes that are stored
      stored(names, sizes, name) ==
        IF (\A k \in 1..Len(sizes) : sizes[k].ok) /\ Len(name) <= 32
        THEN [ok         |-> TRUE,
              modhead    |-> name \o Zeros(32 - Len(name)) \o Zero32,
              ptyp_names |-> [k \in 1..Len(names) |-> Str(names[k])],
              modentries |-> [k \in 1..Len(sizes) |-> MakeEntry(sizes[k].word, Zero32)]]
        ELSE failed
      texts(ts) == [k \in 1..Len(ts) |-> ParseInt(ts[k])]
      got(pl, ps, mn) ==
        IF pl.ok /\ ps.ok /\ mn.ok
        THEN stored(split(pl.text, 44, 1, Len(pl.text)),
                    texts(split(ps.text, 44, 1, Len(ps.text))),
                    CString(encode(mn.text)))
        ELSE failed
      read(st) ==
        IF ~st.raised /\ ~st.err
        THEN got(get(st, <<112, 97, 114, 116, 95, 108, 111, 97, 100>>),
                 get(st, <<112, 97, 114, 116, 95, 115, 105, 122, 101>>),
                 get(st, <<109, 111, 100, 101, 108, 95, 110, 97, 109, 101>>))
        ELSE failed
  IN  IF decode(t.model_name).ok
      THEN read(read_file([sect |-> <<97, 115, 101, 99, 116, 105, 111, 110>>,
                           opt |-> <<>>, indent |-> 0, store |-> <<>>,
                           sections |-> {<<97, 115, 101, 99, 116, 105, 111, 110>>},
                           err |-> FALSE, raised |-> FALSE],
                          HeaderLines(t)))
      ELSE failed

(***************************************************************************)
(* The directory of artifacts of one output prefix: the header options     *)
(* (hdr, <<>> while the file does not exist), the partitions' options      *)
(* (a9h, by type tag) and the raw artifacts (a9s, by name).                *)
(***************************************************************************)
NoFiles == [n \in {} |-> <<>>]
EmptyDir == [hdr |-> <<>>, a9h |-> NoFiles, a9s |-> NoFiles]

\* the directory after open(name, "wb"/"w") and write(content)
PutA9s(d, name, content) == [d EXCEPT !.a9s = (name :> content) @@ d.a9s]
PutA9h(d, name, opts) == [d EXCEPT !.a9h = (name :> opts) @@ d.a9h]
\* open(<part>.a9h, "a").write("added_part=...")
AppendAddedPart(d, name, ap) ==
  [d EXCEPT !.a9h = (name :> [d.a9h[name] EXCEPT !.added_part = <<ap>>]) @@ d.a9h]

(***************************************************************************)
(* State                                                                   *)
(***************************************************************************)
VARIABLES
  scn,         \* the input the run started from (never changes)
  fw,          \* fwmdlfile: [data, pos], the container being read or written
  dirs,        \* the artifact directories, by output prefix
  pfx,         \* po.fwmprefix: the directory the running command uses
  cmd,         \* po.command: "x" (amba_extract), "s" (amba_search_extract) or
               \* "p" (amba_create)
  run,         \* 1: extraction of the input, 2: construction, 3: extraction of the
               \* result; 0: a search of the input
  pc,          \* the place the running command has reached
  status,      \* "run", "done" (returned), "fatal" (raised), "hang" (a call never
               \* returns), "edited" (done, and the artifacts changed since)
  modhead,     \* FwModA9Header, raw bytes
  modentries,  \* list of FwModEntry, raw bytes each
  ptyp_names,  \* list of type tags
  i,           \* the loop index of the running command
  hdcrc,       \* the running cumulative checksum
  e,           \* the FwModPartHeader in hand, raw bytes
  epos,        \* the offset of the partition header in hand
  part_heads,  \* amba_create: the headers of the slots handled so far
  added_part,  \* amba_create: the sub-payload tag of the slot in hand
  warn,        \* the anomalies reported so far: <<run, kind, index>>
  iters,       \* rounds of the boundary detector's loop begun by the running command
  prev_dtpos,  \* amba_search_extract: where the payload last extracted began
  prev_dtlen,  \*   and its length
  ran,         \* the commands main was run with so far, the running one last
  hbuf,        \* amba_calculate_crc32h_part, stepwise: buf
  hpcrc,       \*   pcrc
  hcrc,        \*   crc
  hlen,        \*   len_buf
  hidx,        \*   i
  hpc,         \*   "loop4", "loop1" or "ret"
  hiter,       \*   rounds of the two loops run so far
  vhead,       \* the version round trip: the FwModPartHeader exported
  vopts,       \*   the options dict_export gives, <<>> before the export
  vread,       \*   the FwModPartHeader amba_read_part_head builds
  vpc,         \*   "export", "read" or "done"
  ca,          \* the chunked fold: the first chunk, whole 4-byte groups
  cb,          \*   the rest of the buffer
  cs,          \*   the state both folds start from
  cwhole,      \*   the call on ca ++ cb: [ret |-> returned, crc |-> value]
  cpart,       \*   the call on ca, then the call on cb from its result
  cpc          \*   "whole", "head", "tail" or "done"

srchvars == <<prev_dtpos, prev_dtlen>>
pipevars == <<scn, fw, dirs, pfx, cmd, run, pc, status, modhead, modentries,
              ptyp_names, i, hdcrc, e, epos, part_heads, added_part, warn, iters,
              srchvars, ran>>
crcvars == <<hbuf, hpcrc, hcrc, hlen, hidx, hpc, hiter>>
vervars == <<vhead, vopts, vread, vpc>>
foldvars == <<ca, cb, cs, cwhole, cpart, cpc>>
vars == <<pipevars, crcvars, vervars, foldvars>>

Dir == dirs[pfx]
Running(c, p) == cmd = c /\ status = "run" /\ pc = p
\* an anomaly reported by the running command, if cond holds
Warn(kind, idx, cond) == IF cond THEN {<<run, kind, idx>>} ELSE {}

(***************************************************************************)
(* amba_extract                                                            *)
(***************************************************************************)
\* lines 494-506: the container header
X_ReadHead ==
  /\ Running("x", "x_head")
  /\ LET got == ReadAt(fw, SizeofModHead)
     IN  /\ fw' = [fw EXCEPT !.pos = fw.pos + Len(got)]
         /\ modhead' = IntoStruct(got, SizeofModHead)
         /\ IF Len(got) # SizeofModHead
            THEN /\ status' = "fatal"
                 /\ UNCHANGED <<pc, hdcrc, i, modentries, ptyp_names>>
            ELSE /\ pc' = "x_detect"
                 /\ hdcrc' = Ones32
                 /\ i' = 0
                 /\ modentries' = <<>>
                 /\ ptyp_names' = <<>>
                 /\ UNCHANGED status
  /\ UNCHANGED <<scn, dirs, pfx, cmd, run, e, epos, part_heads, added_part, warn, iters>>
  /\ UNCHANGED <<crcvars, vervars, foldvars, srchvars, ran>>

\* line 516: both values multiples of 1024 and the second non-zero
IsEndMarker(hde) ==
  /\ ME_dt_len(hde)[1] = 0 /\ ME_dt_len(hde)[2] % 4 = 0
  /\ ME_crc32(hde)[1] = 0 /\ ME_crc32(hde)[2] % 4 = 0
  /\ ME_crc32(hde) # Zero32

\* line 519: the entry reaches the end of the file or beyond
IsOversize(hde, idx, flen) ==
  SizeofModHead + idx * SizeofEntry + Val(ME_dt_len(hde)) >= flen

\* lines 508-510: the entry cannot be read whole
X_DetectShort ==
  /\ Running("x", "x_detect")
  /\ LET got == ReadAt(fw, SizeofEntry)
     IN  /\ Len(got) # SizeofEntry
         /\ fw' = [fw EXCEPT !.pos = fw.pos + Len(got)]
  /\ status' = "fatal"
  /\ iters' = iters + 1
  /\ UNCHANGED <<scn, dirs, pfx, cmd, run, pc, modhead, modentries, ptyp_names, i,
                 hdcrc, e, epos, part_heads, added_part, warn>>
  /\ UNCHANGED <<crcvars, vervars, foldvars, srchvars, ran>>

\* X_DetectMarker leaving the position after the marker entry
X_DetectMarkerConsumes ==
  /\ Running("x", "x_detect")
  /\ LET got == ReadAt(fw, SizeofEntry)
     IN  /\ Len(got) = SizeofEntry
         /\ IsEndMarker(got)
  /\ fw' = [fw EXCEPT !.pos = fw.pos + SizeofEntry]
  /\ pc' = "x_posthead"
  /\ iters' = iters + 1
  /\ UNCHANGED <<scn, dirs, pfx, cmd, run, status, modhead, modentries, ptyp_names,
                 i, hdcrc, e, epos, part_heads, added_part, warn>>
  /\ UNCHANGED <<crcvars, vervars, foldvars, srchvars, ran>>

\* lines 516-518: the first stop condition; the entry is put back
X_DetectMarker ==
  /\ Running("x", "x_detect")
  /\ LET got == ReadAt(fw, SizeofEntry)
     IN  /\ Len(got) = SizeofEntry
         /\ IsEndMarker(got)
  /\ pc' = "x_posthead"
  /\ iters' = iters + 1
  /\ UNCHANGED <<scn, fw, dirs, pfx, cmd, run, status, modhead, modentries, ptyp_names,
                 i, hdcrc, e, epos, part_heads, added_part, warn>>
  /\ UNCHANGED <<crcvars, vervars, foldvars, srchvars, ran>>

\* lines 519-524: the second stop condition; the entry is put back
X_DetectOversize ==
  /\ Running("x", "x_detect")
  /\ LET got == ReadAt(fw, SizeofEntry)
     IN  /\ Len(got) = SizeofEntry
         /\ ~IsEndMarker(got)
         /\ IsOversize(got, i, Len(fw.data))
  /\ pc' = "x_posthead"
  /\ warn' = warn \cup Warn("detect_unusual", i, TRUE)
  /\ iters' = iters + 1
  /\ UNCHANGED <<scn, fw, dirs, pfx, cmd, run, status, modhead, modentries, ptyp_names,
                 i, hdcrc, e, epos, part_heads, added_part>>
  /\ UNCHANGED <<crcvars, vervars, foldvars, srchvars, ran>>

\* X_DetectRetain giving up as soon as 128 entries are kept
X_DetectRetainAt128 ==
  /\ Running("x", "x_detect")
  /\ LET got == ReadAt(fw, SizeofEntry)
     IN  /\ Len(got) = SizeofEntry
         /\ ~IsEndMarker(got)
         /\ ~IsOversize(got, i, Len(fw.data))
         /\ fw' = [fw EXCEPT !.pos = fw.pos + SizeofEntry]
         /\ modentries' = Append(modentries, got)
         /\ ptyp_names' = IF ME_dt_len(got) # Zero32
                          THEN Append(ptyp_names, amba_a9_part_entry_type_id(i))
                          ELSE ptyp_names
  /\ i' = i + 1
  /\ status' = IF i + 1 >= MaxEntryScan THEN "fatal" ELSE status
  /\ iters' = iters + 1
  /\ UNCHANGED <<scn, dirs, pfx, cmd, run, pc, modhead, hdcrc, e, epos, part_heads,
                 added_part, warn>>
  /\ UNCHANGED <<crcvars, vervars, foldvars, srchvars, ran>>

\* a detector that keeps only the entries of non-zero length
X_DetectRetainDropsZero ==
  /\ Running("x", "x_detect")
  /\ LET got == ReadAt(fw, SizeofEntry)
     IN  /\ Len(got) = SizeofEntry
         /\ ~IsEndMarker(got)
         /\ ~IsOversize(got, i, Len(fw.data))
         /\ fw' = [fw EXCEPT !.pos = fw.pos + SizeofEntry]
         /\ modentries' = IF ME_dt_len(got) # Zero32
                          THEN Append(modentries, got) ELSE modentries
         /\ ptyp_names' = IF ME_dt_len(got) # Zero32
                          THEN Append(ptyp_names, amba_a9_part_entry_type_id(i))
                          ELSE ptyp_names
  /\ i' = i + 1
  /\ status' = IF i + 1 > MaxEntryScan THEN "fatal" ELSE status
  /\ iters' = iters + 1
  /\ UNCHANGED <<scn, dirs, pfx, cmd, run, pc, modhead, hdcrc, e, epos, part_heads,
                 added_part, warn>>
  /\ UNCHANGED <<crcvars, vervars, foldvars, srchvars, ran>>

\* lines 525-530: the entry is kept, and the scan gives up beyond 128
X_DetectRetain ==
  /\ Running("x", "x_detect")
  /\ LET got == ReadAt(fw, SizeofEntry)
     IN  /\ Len(got) = SizeofEntry
         /\ ~IsEndMarker(got)
         /\ ~IsOversize(got, i, Len(fw.data))
         /\ fw' = [fw EXCEPT !.pos = fw.pos + SizeofEntry]
         /\ modentries' = Append(modentries, got)
         /\ ptyp_names' = IF ME_dt_len(got) # Zero32
                          THEN Append(ptyp_names, amba_a9_part_entry_type_id(i))
                          ELSE ptyp_names
  /\ i' = i + 1
  /\ status' = IF i + 1 > MaxEntryScan THEN "fatal" ELSE status
  /\ iters' = iters + 1
  /\ UNCHANGED <<scn, dirs, pfx, cmd, run, pc, modhead, hdcrc, e, epos, part_heads,
                 added_part, warn>>
  /\ UNCHANGED <<crcvars, vervars, foldvars, srchvars, ran>>

\* lines 538-549: the header options are written, the post-header block
\* read.  A model name that is not UTF-8 raises in the writing (line 119),
\* the file left with its comment lines and nothing read.
X_PostHead ==
  /\ Running("x", "x_posthead")
  /\ LET opts == ModHeadExport(modhead, ptyp_names, modentries)
         got  == ReadAt(fw, SizeofPostHead)
         d1   == [Dir EXCEPT !.hdr = <<opts>>]
         dif  == Len(got) = SizeofPostHead /\ got # post_head_data
     IN  IF ~opts.written
         THEN /\ dirs' = [dirs EXCEPT ![pfx] = d1]
              /\ status' = "fatal"
              /\ UNCHANGED <<fw, warn, pc, i>>
         ELSE /\ fw' = [fw EXCEPT !.pos = fw.pos + Len(got)]
              /\ dirs' = [dirs EXCEPT ![pfx] =
                            IF dif THEN PutA9s(d1, "post_head_data", got) ELSE d1]
              /\ warn' = warn \cup Warn("post_head_differs", 0, dif)
              /\ IF Len(got) # SizeofPostHead
                 THEN status' = "fatal" /\ UNCHANGED <<pc, i>>
                 ELSE pc' = "x_loop" /\ i' = -1 /\ UNCHANGED status
  /\ UNCHANGED <<scn, pfx, cmd, run, modhead, modentries, ptyp_names, hdcrc, e, epos,
                 part_heads, added_part, iters>>
  /\ UNCHANGED <<crcvars, vervars, foldvars, srchvars, ran>>

\* the table entry of slot k, or a fresh FwModEntry beyond the table (line 559)
EntryOf(k) == IF k < Len(modentries) THEN modentries[k + 1] ELSE Zeros(SizeofEntry)

\* lines 551-556: an unused slot of the table is passed over
X_SkipSlot ==
  /\ Running("x", "x_loop")
  /\ i + 1 < Len(modentries)
  /\ ME_dt_len(modentries[i + 2]) = Zero32
  /\ i' = i + 1
  /\ UNCHANGED <<scn, fw, dirs, pfx, cmd, run, pc, status, modhead, modentries,
                 ptyp_names, hdcrc, e, epos, part_heads, added_part, warn, iters>>
  /\ UNCHANGED <<crcvars, vervars, foldvars, srchvars, ran>>

\* a slot whose partition header is to be read
ReadsSlot ==
  IF i + 1 >= Len(modentries) THEN TRUE ELSE ME_dt_len(modentries[i + 2]) # Zero32

\* lines 560-565: nothing left to read
X_EndOfFile ==
  /\ Running("x", "x_loop")
  /\ ReadsSlot
  /\ ReadAt(fw, SizeofPartHead) = <<>>
  /\ i' = i + 1
  /\ epos' = fw.pos
  /\ e' = Zeros(SizeofPartHead)
  /\ pc' = "x_final"
  /\ UNCHANGED <<scn, fw, dirs, pfx, cmd, run, status, modhead, modentries,
                 ptyp_names, hdcrc, part_heads, added_part, warn, iters>>
  /\ UNCHANGED <<crcvars, vervars, foldvars, srchvars, ran>>

\* IsTrailerRead without the test on the slot index
IsTrailerReadAnySlot(n, idx) == n - 4 = Len(post_file_data)

\* line 567: a short read of the trailer block's length plus 4, met at the
\* slot that follows the table
IsTrailerRead(n, idx) == n - 4 = Len(post_file_data) /\ idx = Len(modentries)

\* lines 566-578: the trailer block ends the extraction
X_Trailer ==
  /\ Running("x", "x_loop")
  /\ ReadsSlot
  /\ LET got == ReadAt(fw, SizeofPartHead)
         n   == Len(got)
         buf == SubSeq(got, 1, n - 4)
     IN  /\ n # 0 /\ n # SizeofPartHead
         /\ IsTrailerRead(n, i + 1)
         /\ fw' = [fw EXCEPT !.pos = fw.pos + n - 4]
         /\ e' = IntoStruct(got, SizeofPartHead)
         /\ warn' = warn \cup Warn("post_file_differs", i + 1, buf # post_file_data)
         /\ dirs' = [dirs EXCEPT ![pfx] =
                       IF buf # post_file_data
                       THEN PutA9s(Dir, "post_file_data", buf) ELSE Dir]
  /\ i' = i + 1
  /\ epos' = fw.pos
  /\ pc' = "x_final"
  /\ UNCHANGED <<scn, pfx, cmd, run, status, modhead, modentries, ptyp_names, hdcrc,
                 part_heads, added_part, iters>>
  /\ UNCHANGED <<crcvars, vervars, foldvars, srchvars, ran>>

\* a short read that ends the extraction as the end of the file does
X_TruncatedEnds ==
  /\ Running("x", "x_loop")
  /\ ReadsSlot
  /\ LET got == ReadAt(fw, SizeofPartHead)
         n   == Len(got)
     IN  /\ n # 0 /\ n # SizeofPartHead
         /\ ~IsTrailerRead(n, i + 1)
         /\ fw' = [fw EXCEPT !.pos = fw.pos + n]
         /\ e' = IntoStruct(got, SizeofPartHead)
  /\ i' = i + 1
  /\ epos' = fw.pos
  /\ pc' = "x_final"
  /\ UNCHANGED <<scn, dirs, pfx, cmd, run, status, modhead, modentries, ptyp_names,
                 hdcrc, part_heads, added_part, warn, iters>>
  /\ UNCHANGED <<crcvars, vervars, foldvars, srchvars, ran>>

\* lines 579-580: any other short read
X_Truncated ==
  /\ Running("x", "x_loop")
  /\ ReadsSlot
  /\ LET got == ReadAt(fw, SizeofPartHead)
         n   == Len(got)
     IN  /\ n # 0 /\ n # SizeofPartHead
         /\ ~IsTrailerRead(n, i + 1)
         /\ fw' = [fw EXCEPT !.pos = fw.pos + n]
         /\ e' = IntoStruct(got, SizeofPartHead)
  /\ i' = i + 1
  /\ epos' = fw.pos
  /\ status' = "fatal"
  /\ UNCHANGED <<scn, dirs, pfx, cmd, run, pc, modhead, modentries, ptyp_names, hdcrc,
                 part_heads, added_part, warn, iters>>
  /\ UNCHANGED <<crcvars, vervars, foldvars, srchvars, ran>>

\* line 587
BadSize(h) == WordLess(PH_dt_len(h), WordOf(16)) \/ WordLess(MaxPartLen, PH_dt_len(h))

\* lines 581-595: a whole partition header; its options and an empty
\* payload artifact are written
X_PartHead ==
  /\ Running("x", "x_loop")
  /\ ReadsSlot
  /\ LET got  == ReadAt(fw, SizeofPartHead)
         ptyp == amba_a9_part_entry_type_id(i + 1)
     IN  /\ Len(got) = SizeofPartHead
         /\ fw' = [fw EXCEPT !.pos = fw.pos + SizeofPartHead]
         /\ e' = got
         /\ hdcrc' = amba_calculate_crc32h_part(got, hdcrc)
         /\ warn' = warn \cup Warn("magic", i + 1, PH_magic(got) # PartMagic)
                         \cup Warn("bad_size", i + 1, BadSize(got))
                         \cup Warn("data_continues", i + 1, i + 1 >= Len(modentries))
         /\ dirs' = [dirs EXCEPT ![pfx] =
                       PutA9s(PutA9h(Dir, ptyp, PartHeadExport(got)), ptyp, <<>>)]
  /\ i' = i + 1
  /\ epos' = fw.pos
  /\ pc' = "x_payload"
  /\ UNCHANGED <<scn, pfx, cmd, run, status, modhead, modentries, ptyp_names,
                 part_heads, added_part, iters>>
  /\ UNCHANGED <<crcvars, vervars, foldvars, srchvars, ran>>

\* lines 600-607: the copy loop from state st = [n, pos, out, ptcrc, hdcrc,
\* held, hung]; dtlen is e.dt_len.  A chunk is written before it is
\* checksummed; when its fold does not return, hdcrc is left as the earlier
\* chunks made it and held is the chunk, handed to the buffered writer of
\* the artifact and not known to be on disk.
RECURSIVE ExtractCopy(_, _, _)
ExtractCopy(data, dtlen, st) ==
  IF st.hung \/ ~(st.n < dtlen) THEN st
  ELSE LET buf == SubSeq(data, st.pos + 1,
                         Min(st.pos + Min(ChunkSize, dtlen - st.n), Len(data)))
       IN  IF buf = <<>> THEN st
           ELSE ExtractCopy(data, dtlen,
                  [n     |-> st.n + Len(buf),
                   pos   |-> st.pos + Len(buf),
                   out   |-> st.out \o buf,
                   ptcrc |-> amba_calculate_crc32b_part(buf, st.ptcrc),
                   hdcrc |-> IF Crc32hReturns(buf)
                             THEN amba_calculate_crc32h_part(buf, st.hdcrc)
                             ELSE st.hdcrc,
                   held  |-> IF Crc32hReturns(buf) THEN <<>> ELSE buf,
                   hung  |-> ~Crc32hReturns(buf)])

\* lines 618-621
BadDate(h) ==
  \/ build_date_year(h) < 1970
  \/ build_date_month(h) < 1 \/ build_date_month(h) > 12
  \/ build_date_day(h) < 1 \/ build_date_day(h) > 31
OldDate(h) == ~BadDate(h) /\ build_date_year(h) < 2004

\* line 623
BadPadding(h) ==
  \/ PH_padding(h)[1] # Zero32
  \/ \E k \in 2..56 : PH_padding(h)[k] # PH_padding(h)[1]

\* what the artifact file holds once the copy loop has stopped: all that
\* was written when the file was closed (line 608); when the fold of the
\* last chunk does not return the file is never closed, and the chunk
\* reaches the disk or not with the writer's buffer size and the way the
\* process ends
OnDisk(r) ==
  IF r.hung THEN {r.out, SubSeq(r.out, 1, Len(r.out) - Len(r.held))}
  ELSE {r.out}

\* lines 598-624: the payload is copied and the checks are made
X_Payload ==
  /\ Running("x", "x_payload")
  /\ LET ptyp == amba_a9_part_entry_type_id(i)
         hde  == EntryOf(i)
         r    == ExtractCopy(fw.data, Val(PH_dt_len(e)),
                   [n |-> 0, pos |-> fw.pos, out |-> <<>>, ptcrc |-> Zero32,
                    hdcrc |-> hdcrc, held |-> <<>>, hung |-> FALSE])
     IN  /\ fw' = [fw EXCEPT !.pos = r.pos]
         /\ \E disk \in OnDisk(r) : dirs' = [dirs EXCEPT ![pfx] = PutA9s(Dir, ptyp, disk)]
         /\ hdcrc' = r.hdcrc
         /\ IF r.hung
            THEN /\ status' = "hang"
                 /\ UNCHANGED <<pc, warn>>
            ELSE /\ pc' = "x_added"
                 /\ warn' = warn \cup Warn("data_crc", i, r.ptcrc # PH_crc32(e))
                                 \cup Warn("cum_crc", i, r.hdcrc # ME_crc32(hde))
                                 \cup Warn("date", i, BadDate(e))
                                 \cup Warn("date_old", i, OldDate(e))
                                 \cup Warn("padding", i, BadPadding(e))
                 /\ UNCHANGED status
  /\ UNCHANGED <<scn, pfx, cmd, run, modhead, modentries, ptyp_names, i, e, epos,
                 part_heads, added_part, iters>>
  /\ UNCHANGED <<crcvars, vervars, foldvars, srchvars, ran>>

\* line 628
HasAddedPart(hde, h) == Val(ME_dt_len(hde)) - SizeofPartHead > Val(PH_dt_len(h))

\* lines 631-639: the name of the sub-payload artifact
AddedPartName(mh, ptyp) ==
  IF CString(MH_model_name(mh)) = NameZ16 THEN "fdt" ELSE ptyp \o "_bis"

\* lines 645-648: no sub-payload
X_NoAddedPart ==
  /\ Running("x", "x_added")
  /\ ~HasAddedPart(EntryOf(i), e)
  /\ dirs' = [dirs EXCEPT ![pfx] =
                AppendAddedPart(Dir, amba_a9_part_entry_type_id(i), "")]
  /\ pc' = "x_loop"
  /\ UNCHANGED <<scn, fw, pfx, cmd, run, status, modhead, modentries, ptyp_names, i,
                 hdcrc, e, epos, part_heads, added_part, warn, iters>>
  /\ UNCHANGED <<crcvars, vervars, foldvars, srchvars, ran>>

\* lines 628-644: the rest of the slot is the sub-payload; an empty read
\* leaves the loop
X_AddedPart ==
  /\ Running("x", "x_added")
  /\ HasAddedPart(EntryOf(i), e)
  /\ LET ptyp == amba_a9_part_entry_type_id(i)
         name == AddedPartName(modhead, ptyp)
         size_part == Val(ME_dt_len(EntryOf(i))) - SizeofPartHead - Val(PH_dt_len(e))
         buf  == ReadAt(fw, size_part)
     IN  /\ fw' = [fw EXCEPT !.pos = fw.pos + Len(buf)]
         /\ dirs' = [dirs EXCEPT ![pfx] =
                       PutA9s(AppendAddedPart(Dir, ptyp, name), name, buf)]
         /\ pc' = IF buf = <<>> THEN "x_final" ELSE "x_loop"
  /\ UNCHANGED <<scn, pfx, cmd, run, status, modhead, modentries, ptyp_names, i,
                 hdcrc, e, epos, part_heads, added_part, warn, iters>>
  /\ UNCHANGED <<crcvars, vervars, foldvars, srchvars, ran>>

\* the last 4 bytes of a file, and whether they differ from the standard
\* checksum of what precedes the trailer block
Footer(data) == SubSeq(data, Len(data) - 3, Len(data))
FooterDiffers(data) ==
  Footer(data) # amba_calculate_crc32(SubSeq(data, 1, Len(data) - 20))

\* X_Final checking the footer too
X_FinalChecksFooter ==
  /\ Running("x", "x_final")
  /\ hdcrc' = NotW(hdcrc)
  /\ warn' = warn \cup Warn("total_crc", 0, NotW(hdcrc) # MH_crc32(modhead))
                  \cup Warn("file_crc", 0, FooterDiffers(fw.data))
  /\ status' = "done"
  /\ UNCHANGED <<scn, fw, dirs, pfx, cmd, run, pc, modhead, modentries, ptyp_names, i,
                 e, epos, part_heads, added_part, iters>>
  /\ UNCHANGED <<crcvars, vervars, foldvars, srchvars, ran>>

\* lines 650-654: the checksum of the container header
X_Final ==
  /\ Running("x", "x_final")
  /\ hdcrc' = NotW(hdcrc)
  /\ warn' = warn \cup Warn("total_crc", 0, NotW(hdcrc) # MH_crc32(modhead))
  /\ status' = "done"
  /\ UNCHANGED <<scn, fw, dirs, pfx, cmd, run, pc, modhead, modentries, ptyp_names, i,
                 e, epos, part_heads, added_part, iters>>
  /\ UNCHANGED <<crcvars, vervars, foldvars, srchvars, ran>>

(***************************************************************************)
(* amba_create                                                             *)
(***************************************************************************)
\* a membership test that accepts every tag
InListAny(x, s) == TRUE

InList(x, s) == \E k \in 1..Len(s) : s[k] = x

\* lines 697-701: the header options are read and the tags checked; a
\* missing file, options that cannot be read (among them an empty
\* part_size list) or an unknown tag raises
P_ReadModHead ==
  /\ Running("p", "p_head")
  /\ LET read(r) ==
           IF ~r.ok
           THEN /\ status' = "fatal"
                /\ UNCHANGED <<pc, modhead, ptyp_names, modentries>>
           ELSE /\ modhead' = r.modhead
                /\ ptyp_names' = r.ptyp_names
                /\ modentries' = r.modentries
                /\ IF \E k \in 1..Len(r.ptyp_names) :
                        ~InList(r.ptyp_names[k], part_entry_type_id)
                   THEN status' = "fatal" /\ UNCHANGED pc
                   ELSE pc' = "p_write_head" /\ UNCHANGED status
     IN  IF Dir.hdr = <<>>
         THEN /\ status' = "fatal"
              /\ UNCHANGED <<pc, modhead, ptyp_names, modentries>>
         ELSE read(ReadModHead(Dir.hdr[1]))
  /\ UNCHANGED <<scn, fw, dirs, pfx, cmd, run, i, hdcrc, e, epos, part_heads,
                 added_part, warn, iters>>
  /\ UNCHANGED <<crcvars, vervars, foldvars, srchvars, ran>>

\* the bytes of a list of FwModEntry, in order
Flatten(s) ==
  [k \in 1..(SizeofEntry * Len(s)) |->
     s[((k - 1) \div SizeofEntry) + 1][((k - 1) % SizeofEntry) + 1]]

\* lines 707-712, 776-781: the artifact overriding a fixed block, if there
\* is a non-empty one
FixedBlock(d, name, builtin) ==
  IF name \in DOMAIN d.a9s /\ d.a9s[name] # <<>> THEN d.a9s[name] ELSE builtin

\* lines 703-716: the unfinished headers and the post-header block
P_WriteHead ==
  /\ Running("p", "p_write_head")
  /\ fw' = WriteAt(WriteAt(WriteAt(fw, modhead), Flatten(modentries)),
                   FixedBlock(Dir, "post_head_data", post_head_data))
  /\ part_heads' = <<>>
  /\ i' = -1
  /\ pc' = "p_slot"
  /\ UNCHANGED <<scn, dirs, pfx, cmd, run, status, modhead, modentries, ptyp_names,
                 hdcrc, e, epos, added_part, warn, iters>>
  /\ UNCHANGED <<crcvars, vervars, foldvars, srchvars, ran>>

\* lines 718-720: past the last slot
P_SlotsDone ==
  /\ Running("p", "p_slot")
  /\ i + 1 >= Len(modentries)
  /\ i' = i + 1
  /\ pc' = "p_trailer"
  /\ UNCHANGED <<scn, fw, dirs, pfx, cmd, run, status, modhead, modentries, ptyp_names,
                 hdcrc, e, epos, part_heads, added_part, warn, iters>>
  /\ UNCHANGED <<crcvars, vervars, foldvars, srchvars, ran>>

\* P_SlotAbsent writing the zero header into the container as well
P_SlotAbsentEmits ==
  /\ Running("p", "p_slot")
  /\ i + 1 < Len(modentries)
  /\ ~InList(amba_a9_part_entry_type_id(i + 1), ptyp_names)
  /\ i' = i + 1
  /\ e' = Zeros(SizeofPartHead)
  /\ fw' = WriteAt(fw, Zeros(SizeofPartHead))
  /\ part_heads' = Append(part_heads, Zeros(SizeofPartHead))
  /\ UNCHANGED <<scn, dirs, pfx, cmd, run, pc, status, modhead, modentries,
                 ptyp_names, hdcrc, epos, added_part, warn, iters>>
  /\ UNCHANGED <<crcvars, vervars, foldvars, srchvars, ran>>

\* lines 725-730: the slot's tag is not in part_load; a zero header is
\* kept in part_heads and nothing is written
P_SlotAbsent ==
  /\ Running("p", "p_slot")
  /\ i + 1 < Len(modentries)
  /\ ~InList(amba_a9_part_entry_type_id(i + 1), ptyp_names)
  /\ i' = i + 1
  /\ e' = Zeros(SizeofPartHead)
  /\ part_heads' = Append(part_heads, Zeros(SizeofPartHead))
  /\ UNCHANGED <<scn, fw, dirs, pfx, cmd, run, pc, status, modhead, modentries,
                 ptyp_names, hdcrc, epos, added_part, warn, iters>>
  /\ UNCHANGED <<crcvars, vervars, foldvars, srchvars, ran>>

\* line 732 (os.stat) and line 451 (open): a file the slot needs is missing
P_SlotMissing ==
  /\ Running("p", "p_slot")
  /\ i + 1 < Len(modentries)
  /\ LET ptyp == amba_a9_part_entry_type_id(i + 1)
     IN  /\ InList(ptyp, ptyp_names)
         /\ IF ptyp \notin DOMAIN Dir.a9s THEN TRUE
            ELSE /\ Dir.a9s[ptyp] # <<>>
                 /\ IF ptyp \notin DOMAIN Dir.a9h THEN TRUE
                    ELSE Dir.a9h[ptyp].added_part = <<>>
  /\ i' = i + 1
  /\ status' = "fatal"
  /\ UNCHANGED <<scn, fw, dirs, pfx, cmd, run, pc, modhead, modentries, ptyp_names,
                 hdcrc, e, epos, part_heads, added_part, warn, iters>>
  /\ UNCHANGED <<crcvars, vervars, foldvars, srchvars, ran>>

\* lines 731-736: the payload artifact is empty; a zero header is kept in
\* part_heads and nothing is written
P_SlotEmpty ==
  /\ Running("p", "p_slot")
  /\ i + 1 < Len(modentries)
  /\ LET ptyp == amba_a9_part_entry_type_id(i + 1)
     IN  /\ InList(ptyp, ptyp_names)
         /\ ptyp \in DOMAIN Dir.a9s
         /\ Dir.a9s[ptyp] = <<>>
  /\ i' = i + 1
  /\ e' = Zeros(SizeofPartHead)
  /\ part_heads' = Append(part_heads, Zeros(SizeofPartHead))
  /\ warn' = warn \cup Warn("empty_part", i + 1, TRUE)
  /\ UNCHANGED <<scn, fw, dirs, pfx, cmd, run, pc, status, modhead, modentries,
                 ptyp_names, hdcrc, epos, added_part, iters>>
  /\ UNCHANGED <<crcvars, vervars, foldvars, srchvars, ran>>

\* lines 737-740: the header is built from the options and written
\* unfinished at the current offset
P_PartHead ==
  /\ Running("p", "p_slot")
  /\ i + 1 < Len(modentries)
  /\ LET ptyp == amba_a9_part_entry_type_id(i + 1)
     IN  /\ InList(ptyp, ptyp_names)
         /\ ptyp \in DOMAIN Dir.a9s
         /\ Dir.a9s[ptyp] # <<>>
         /\ ptyp \in DOMAIN Dir.a9h
         /\ Dir.a9h[ptyp].added_part # <<>>
         /\ e' = amba_read_part_head(Dir.a9h[ptyp])
         /\ added_part' = Dir.a9h[ptyp].added_part[1]
         /\ fw' = WriteAt(fw, amba_read_part_head(Dir.a9h[ptyp]))
  /\ i' = i + 1
  /\ epos' = fw.pos
  /\ pc' = "p_copy"
  /\ UNCHANGED <<scn, dirs, pfx, cmd, run, status, modhead, modentries, ptyp_names,
                 hdcrc, part_heads, warn, iters>>
  /\ UNCHANGED <<crcvars, vervars, foldvars, srchvars, ran>>

\* lines 745-751: the copy loop over the artifact from st = [n, ptcrc]
RECURSIVE CreateCopy(_, _)
CreateCopy(art, st) ==
  LET buf == SubSeq(art, st.n + 1, Min(st.n + ChunkSize, Len(art)))
  IN  IF buf = <<>> THEN st
      ELSE CreateCopy(art, [n     |-> st.n + Len(buf),
                            ptcrc |-> amba_calculate_crc32b_part(buf, st.ptcrc)])

\* lines 742-757: the payload is streamed after the header; e takes its
\* length and checksum
P_Copy ==
  /\ Running("p", "p_copy")
  /\ LET art == Dir.a9s[amba_a9_part_entry_type_id(i)]
         r   == CreateCopy(art, [n |-> 0, ptcrc |-> Zero32])
         e1  == SetField(SetField(e, 12, WordOf(r.n)), 0, r.ptcrc)
     IN  /\ fw' = WriteAt(fw, art)
         /\ e' = e1
         /\ part_heads' = Append(part_heads, e1)
  /\ pc' = "p_added"
  /\ UNCHANGED <<scn, dirs, pfx, cmd, run, status, modhead, modentries, ptyp_names, i,
                 hdcrc, epos, added_part, warn, iters>>
  /\ UNCHANGED <<crcvars, vervars, foldvars, srchvars, ran>>

\* lines 760-762: the sub-payload artifact named by added_part is missing
P_AddedMissing ==
  /\ Running("p", "p_added")
  /\ added_part # ""
  /\ added_part \notin DOMAIN Dir.a9s
  /\ status' = "fatal"
  /\ UNCHANGED <<scn, fw, dirs, pfx, cmd, run, pc, modhead, modentries, ptyp_names, i,
                 hdcrc, e, epos, part_heads, added_part, warn, iters>>
  /\ UNCHANGED <<crcvars, vervars, foldvars, srchvars, ran>>

\* the sub-payload of the slot in hand: empty when added_part is ''
AddedBytes == IF added_part = "" THEN <<>> ELSE Dir.a9s[added_part]

\* the table with the declared length of slot k set (lines 773-774)
SetEntryLen(entries, k, n) ==
  [entries EXCEPT ![k + 1] = MakeEntry(WordOf(n), ME_crc32(entries[k + 1]))]

\* a patch-back that leaves the position behind the rewritten header
P_PatchNoRestore ==
  /\ Running("p", "p_added")
  /\ IF added_part = "" THEN TRUE ELSE added_part \in DOMAIN Dir.a9s
  /\ fw' = WriteAt([WriteAt(fw, AddedBytes) EXCEPT !.pos = epos], e)
  /\ modentries' = SetEntryLen(modentries, i,
                     SizeofPartHead + Val(PH_dt_len(e)) + Len(AddedBytes))
  /\ pc' = "p_slot"
  /\ UNCHANGED <<scn, dirs, pfx, cmd, run, status, modhead, ptyp_names, i, hdcrc, e,
                 epos, part_heads, added_part, warn, iters>>
  /\ UNCHANGED <<crcvars, vervars, foldvars, srchvars, ran>>

\* lines 759-774: the sub-payload is appended, the finished header written
\* over the unfinished one, the position restored and the slot's length set
P_Patch ==
  /\ Running("p", "p_added")
  /\ IF added_part = "" THEN TRUE ELSE added_part \in DOMAIN Dir.a9s
  /\ LET f1   == WriteAt(fw, AddedBytes)
         npos == f1.pos
         f2   == WriteAt([f1 EXCEPT !.pos = epos], e)
     IN  fw' = [f2 EXCEPT !.pos = npos]
  /\ modentries' = SetEntryLen(modentries, i,
                     SizeofPartHead + Val(PH_dt_len(e)) + Len(AddedBytes))
  /\ pc' = "p_slot"
  /\ UNCHANGED <<scn, dirs, pfx, cmd, run, status, modhead, ptyp_names, i, hdcrc, e,
                 epos, part_heads, added_part, warn, iters>>
  /\ UNCHANGED <<crcvars, vervars, foldvars, srchvars, ran>>

\* lines 776-787: the trailer block
P_Trailer ==
  /\ Running("p", "p_trailer")
  /\ fw' = WriteAt(fw, FixedBlock(Dir, "post_file_data", post_file_data))
  /\ hdcrc' = Ones32
  /\ i' = -1
  /\ pc' = "p_crc"
  /\ UNCHANGED <<scn, dirs, pfx, cmd, run, status, modhead, modentries, ptyp_names, e,
                 epos, part_heads, added_part, warn, iters>>
  /\ UNCHANGED <<crcvars, vervars, foldvars, srchvars, ran>>

\* P_CrcDone with the state stored as it stands, not complemented
P_CrcDoneRaw ==
  /\ Running("p", "p_crc")
  /\ i + 1 >= Len(modentries)
  /\ i' = i + 1
  /\ hdcrc' = hdcrc
  /\ modhead' = SetField(modhead, 32, hdcrc)
  /\ pc' = "p_rewrite"
  /\ UNCHANGED <<scn, fw, dirs, pfx, cmd, run, status, modentries, ptyp_names, e, epos,
                 part_heads, added_part, warn, iters>>
  /\ UNCHANGED <<crcvars, vervars, foldvars, srchvars, ran>>

\* lines 789-791: past the last slot; the complemented state goes into
\* the container header (lines 812-813)
P_CrcDone ==
  /\ Running("p", "p_crc")
  /\ i + 1 >= Len(modentries)
  /\ i' = i + 1
  /\ hdcrc' = NotW(hdcrc)
  /\ modhead' = SetField(modhead, 32, NotW(hdcrc))
  /\ pc' = "p_rewrite"
  /\ UNCHANGED <<scn, fw, dirs, pfx, cmd, run, status, modentries, ptyp_names, e, epos,
                 part_heads, added_part, warn, iters>>
  /\ UNCHANGED <<crcvars, vervars, foldvars, srchvars, ran>>

\* a second pass that stamps the running state into a slot of length zero
P_CrcSkipStamps ==
  /\ Running("p", "p_crc")
  /\ i + 1 < Len(modentries)
  /\ ME_dt_len(modentries[i + 2]) = Zero32
  /\ i' = i + 1
  /\ modentries' = [modentries EXCEPT ![i + 2] = MakeEntry(ME_dt_len(@), hdcrc)]
  /\ UNCHANGED <<scn, fw, dirs, pfx, cmd, run, pc, status, modhead, ptyp_names,
                 hdcrc, e, epos, part_heads, added_part, warn, iters>>
  /\ UNCHANGED <<crcvars, vervars, foldvars, srchvars, ran>>

\* lines 795-796: a slot of declared length zero
P_CrcSkip ==
  /\ Running("p", "p_crc")
  /\ i + 1 < Len(modentries)
  /\ ME_dt_len(modentries[i + 2]) = Zero32
  /\ i' = i + 1
  /\ UNCHANGED <<scn, fw, dirs, pfx, cmd, run, pc, status, modhead, modentries,
                 ptyp_names, hdcrc, e, epos, part_heads, added_part, warn, iters>>
  /\ UNCHANGED <<crcvars, vervars, foldvars, srchvars, ran>>

\* line 797: the slot's payload artifact cannot be opened
P_CrcMissing ==
  /\ Running("p", "p_crc")
  /\ i + 1 < Len(modentries)
  /\ ME_dt_len(modentries[i + 2]) # Zero32
  /\ amba_a9_part_entry_type_id(i + 1) \notin DOMAIN Dir.a9s
  /\ i' = i + 1
  /\ status' = "fatal"
  /\ UNCHANGED <<scn, fw, dirs, pfx, cmd, run, pc, modhead, modentries, ptyp_names,
                 hdcrc, e, epos, part_heads, added_part, warn, iters>>
  /\ UNCHANGED <<crcvars, vervars, foldvars, srchvars, ran>>

\* lines 801-806: the loop over the artifact from st = [n, hdcrc, hung];
\* dtlen is e.dt_len.  When the fold of a chunk does not return, hdcrc is
\* left as the header and the earlier chunks made it.
RECURSIVE CreateCrcCopy(_, _, _)
CreateCrcCopy(art, dtlen, st) ==
  IF st.hung \/ ~(st.n < dtlen) THEN st
  ELSE LET buf == SubSeq(art, st.n + 1,
                         Min(st.n + Min(ChunkSize, dtlen - st.n), Len(art)))
       IN  IF buf = <<>> THEN st
           ELSE CreateCrcCopy(art, dtlen,
                  [n     |-> st.n + Len(buf),
                   hdcrc |-> IF Crc32hReturns(buf)
                             THEN amba_calculate_crc32h_part(buf, st.hdcrc)
                             ELSE st.hdcrc,
                   hung  |-> ~Crc32hReturns(buf)])

\* lines 797-811: the slot's header and payload are folded into the
\* running state, which goes into the slot's entry
P_CrcSlot ==
  /\ Running("p", "p_crc")
  /\ i + 1 < Len(modentries)
  /\ ME_dt_len(modentries[i + 2]) # Zero32
  /\ amba_a9_part_entry_type_id(i + 1) \in DOMAIN Dir.a9s
  /\ LET h == part_heads[i + 2]
         r == CreateCrcCopy(Dir.a9s[amba_a9_part_entry_type_id(i + 1)],
                            Val(PH_dt_len(h)),
                            [n |-> 0, hung |-> FALSE,
                             hdcrc |-> amba_calculate_crc32h_part(h, hdcrc)])
     IN  /\ e' = h
         /\ hdcrc' = r.hdcrc
         /\ IF r.hung
            THEN /\ status' = "hang"
                 /\ UNCHANGED modentries
            ELSE /\ modentries' = [modentries EXCEPT ![i + 2] =
                                     MakeEntry(ME_dt_len(@), r.hdcrc)]
                 /\ UNCHANGED status
  /\ i' = i + 1
  /\ UNCHANGED <<scn, fw, dirs, pfx, cmd, run, pc, modhead, ptyp_names, epos,
                 part_heads, added_part, warn, iters>>
  /\ UNCHANGED <<crcvars, vervars, foldvars, srchvars, ran>>

\* a rewrite at the position the second pass left, without the seek to 0
P_RewriteInPlace ==
  /\ Running("p", "p_rewrite")
  /\ fw' = WriteAt(WriteAt(fw, modhead), Flatten(modentries))
  /\ pc' = "p_footer"
  /\ UNCHANGED <<scn, dirs, pfx, cmd, run, status, modhead, modentries, ptyp_names, i,
                 hdcrc, e, epos, part_heads, added_part, warn, iters>>
  /\ UNCHANGED <<crcvars, vervars, foldvars, srchvars, ran>>

\* lines 817-820: the container header and the table are written again
\* from offset 0
P_Rewrite ==
  /\ Running("p", "p_rewrite")
  /\ fw' = WriteAt(WriteAt([fw EXCEPT !.pos = 0], modhead), Flatten(modentries))
  /\ pc' = "p_footer"
  /\ UNCHANGED <<scn, dirs, pfx, cmd, run, status, modhead, modentries, ptyp_names, i,
                 hdcrc, e, epos, part_heads, added_part, warn, iters>>
  /\ UNCHANGED <<crcvars, vervars, foldvars, srchvars, ran>>

\* lines 827-832: the loop over the file's first upto bytes from st = [n, ptcrc]
RECURSIVE FooterCrc(_, _, _)
FooterCrc(data, upto, st) ==
  IF ~(st.n < upto) THEN st
  ELSE LET buf == SubSeq(data, st.n + 1,
                         Min(st.n + Min(ChunkSize, upto - st.n), Len(data)))
       IN  IF buf = <<>> THEN st
           ELSE FooterCrc(data, upto,
                  [n     |-> st.n + Len(buf),
                   ptcrc |-> amba_calculate_crc32b_part(buf, st.ptcrc)])

\* P_Footer with the checksum taken over the whole file written so far
P_FooterWhole ==
  /\ Running("p", "p_footer")
  /\ LET upto == Len(fw.data)
         r    == FooterCrc(fw.data, upto, [n |-> 0, ptcrc |-> Zero32])
     IN  /\ epos' = upto
         /\ fw' = WriteAt([fw EXCEPT !.pos = Len(fw.data)], r.ptcrc)
  /\ status' = "done"
  /\ UNCHANGED <<scn, dirs, pfx, cmd, run, pc, modhead, modentries, ptyp_names, i,
                 hdcrc, e, part_heads, added_part, warn, iters>>
  /\ UNCHANGED <<crcvars, vervars, foldvars, srchvars, ran>>

\* lines 822-836: the checksum of the file up to 16 bytes before its end
\* is appended
P_Footer ==
  /\ Running("p", "p_footer")
  /\ LET upto == Len(fw.data) - 16
         r    == FooterCrc(fw.data, upto, [n |-> 0, ptcrc |-> Zero32])
     IN  /\ epos' = upto
         /\ fw' = WriteAt([fw EXCEPT !.pos = Len(fw.data)], r.ptcrc)
  /\ status' = "done"
  /\ UNCHANGED <<scn, dirs, pfx, cmd, run, pc, modhead, modentries, ptyp_names, i,
                 hdcrc, e, part_heads, added_part, warn, iters>>
  /\ UNCHANGED <<crcvars, vervars, foldvars, srchvars, ran>>

(***************************************************************************)
(* amba_search_extract                                                     *)
(***************************************************************************)
\* fwmdlmm.find(b'\x90\xEB\x24\xA3', start): the lowest offset from start
\* on at which the four bytes of the magic value stand, -1 if there is none
MagicAt(data, start) ==
  {p \in start..(Len(data) - 4) : SubSeq(data, p + 1, p + 4) = PartMagic}
Find(data, start) ==
  IF MagicAt(data, start) = {} THEN -1
  ELSE CHOOSE p \in MagicAt(data, start) : \A q \in MagicAt(data, start) : p <= q

\* the offset of magic within FwModPartHeader (line 670)
MagicOffset == 24

\* lines 661-665: an empty file cannot be mapped
S_MapEmpty ==
  /\ Running("s", "s_map")
  /\ fw.data = <<>>
  /\ status' = "fatal"
  /\ UNCHANGED <<scn, fw, dirs, pfx, cmd, run, pc, modhead, modentries, ptyp_names,
                 i, hdcrc, e, epos, part_heads, added_part, warn, iters>>
  /\ UNCHANGED <<crcvars, vervars, foldvars, srchvars, ran>>

\* lines 661-665: the file is mapped, the search begins before its start
S_Map ==
  /\ Running("s", "s_map")
  /\ fw.data # <<>>
  /\ epos' = -SizeofPartHead
  /\ prev_dtlen' = 0
  /\ prev_dtpos' = 0
  /\ i' = 0
  /\ pc' = "s_find"
  /\ UNCHANGED <<scn, fw, dirs, pfx, cmd, run, status, modhead, modentries,
                 ptyp_names, hdcrc, e, part_heads, added_part, warn, iters>>
  /\ UNCHANGED <<crcvars, vervars, foldvars, ran>>

\* lines 667-669: no further magic value; the function returns
S_NotFound ==
  /\ Running("s", "s_find")
  /\ Find(fw.data, epos + SizeofPartHead) < 0
  /\ epos' = -1
  /\ status' = "done"
  /\ UNCHANGED <<scn, fw, dirs, pfx, cmd, run, pc, modhead, modentries, ptyp_names,
                 i, hdcrc, e, part_heads, added_part, warn, iters>>
  /\ UNCHANGED <<crcvars, vervars, foldvars, srchvars, ran>>

\* lines 667-672: the magic value stands too near the start of the file to
\* be that of a header
S_TooEarly ==
  /\ Running("s", "s_find")
  /\ LET found == Find(fw.data, epos + SizeofPartHead)
     IN  /\ found >= 0
         /\ found - MagicOffset < 0
         /\ epos' = found - MagicOffset
  /\ UNCHANGED <<scn, fw, dirs, pfx, cmd, run, pc, status, modhead, modentries,
                 ptyp_names, i, hdcrc, e, part_heads, added_part, warn, iters>>
  /\ UNCHANGED <<crcvars, vervars, foldvars, srchvars, ran>>

\* lines 667-674: the file ends inside the header the magic value would
\* belong to; from_buffer_copy raises
S_ShortHead ==
  /\ Running("s", "s_find")
  /\ LET found == Find(fw.data, epos + SizeofPartHead)
     IN  /\ found >= MagicOffset
         /\ found - MagicOffset + SizeofPartHead > Len(fw.data)
         /\ epos' = found - MagicOffset
  /\ status' = "fatal"
  /\ UNCHANGED <<scn, fw, dirs, pfx, cmd, run, pc, modhead, modentries, ptyp_names,
                 i, hdcrc, e, part_heads, added_part, warn, iters>>
  /\ UNCHANGED <<crcvars, vervars, foldvars, srchvars, ran>>

\* the header the magic value found belongs to
SearchHead(data, found) ==
  SubSeq(data, found - MagicOffset + 1, found - MagicOffset + SizeofPartHead)

\* line 675: a length no payload at dtpos can have
SearchBadSize(h, data, dtpos) ==
  \/ BadSize(h)
  \/ WordLess(WordOf(Len(data) - dtpos), PH_dt_len(h))

\* lines 667-677: the length of the header rules it out
S_FalsePositive ==
  /\ Running("s", "s_find")
  /\ LET found == Find(fw.data, epos + SizeofPartHead)
     IN  /\ found >= MagicOffset
         /\ found - MagicOffset + SizeofPartHead <= Len(fw.data)
         /\ SearchBadSize(SearchHead(fw.data, found), fw.data,
                          found - MagicOffset + SizeofPartHead)
         /\ epos' = found - MagicOffset
         /\ e' = SearchHead(fw.data, found)
  /\ UNCHANGED <<scn, fw, dirs, pfx, cmd, run, pc, status, modhead, modentries,
                 ptyp_names, i, hdcrc, part_heads, added_part, warn, iters>>
  /\ UNCHANGED <<crcvars, vervars, foldvars, srchvars, ran>>

\* "{:02d}".format(i)
TwoDigits(n) == IF n < 10 THEN "0" \o ToString(n) ELSE ToString(n)

\* lines 667-693: the header's options and the payload behind it are
\* written under the number of the find
S_Extract ==
  /\ Running("s", "s_find")
  /\ LET found == Find(fw.data, epos + SizeofPartHead)
         h     == SearchHead(fw.data, found)
         dtpos == found - MagicOffset + SizeofPartHead
         pay   == SubSeq(fw.data, dtpos + 1, dtpos + Val(PH_dt_len(h)))
         ptyp  == TwoDigits(i)
     IN  /\ found >= MagicOffset
         /\ dtpos <= Len(fw.data)
         /\ ~SearchBadSize(h, fw.data, dtpos)
         /\ epos' = found - MagicOffset
         /\ e' = h
         /\ warn' = warn \cup Warn("overlap", i, prev_dtpos + prev_dtlen > found - MagicOffset)
                         \cup Warn("search_crc", i, amba_calculate_crc32(pay) # PH_crc32(h))
         /\ dirs' = [dirs EXCEPT ![pfx] =
                       PutA9s(PutA9h(Dir, ptyp, PartHeadExport(h)), ptyp, pay)]
         /\ prev_dtlen' = Val(PH_dt_len(h))
         /\ prev_dtpos' = dtpos
  /\ i' = i + 1
  /\ UNCHANGED <<scn, fw, pfx, cmd, run, pc, status, modhead, modentries,
                 ptyp_names, hdcrc, part_heads, added_part, iters>>
  /\ UNCHANGED <<crcvars, vervars, foldvars, ran>>

(***************************************************************************)
(* Input containers.  A scenario names a container: the model name, the    *)
(* slots of its table ("E" unused, "P" a 16-byte payload, "S" a 16-byte    *)
(* payload and a 4-byte sub-payload, "O" an 18-byte payload), and one      *)
(* change made to the well-formed container of those slots.                *)
(***************************************************************************)
\* the longest table the scenarios enumerate freely
MaxSlots == 2

NameOther == <<90, 49, 56>>

\* model names the options file does not give back as they are: bytes that
\* are not UTF-8; a blank at the end, a blank in front; "A%%B"; "A%B";
\* "AB\nCD"; "A%(part_size)s"; "AB\n CD"; "AB\nk=%(model_name)s";
\* "A\n[b]"; two options whose names differ in the case of a letter beyond
\* ASCII only, "A\n" E-acute "=1\n" e-acute "=2"; a reference in capital
\* letters to an option that ends in a final sigma, "%(" Alpha Sigma ")s\n"
\* alpha final-sigma "=B"; a part_size option of its own, one of its sizes
\* behind the character 28 (the options the code writes then fall under
\* DEFAULT), "X\npart_size=1,\x1c2\n[DEFAULT]"
OddNames ==
  [NONUTF8 |-> <<255, 254, 90>>,
   TRAIL   |-> <<65, 66, 32>>,
   LEAD    |-> <<32, 65, 66>>,
   PCT2    |-> <<65, 37, 37, 66>>,
   PCT     |-> <<65, 37, 66>>,
   BREAK   |-> <<65, 66, 10, 67, 68>>,
   REF     |-> <<65, 37, 40, 112, 97, 114, 116, 95, 115, 105, 122, 101, 41, 115>>,
   CONT    |-> <<65, 66, 10, 32, 67, 68>>,
   OPTION  |-> <<65, 66, 10, 107, 61, 37, 40, 109, 111, 100, 101, 108, 95, 110, 97, 109, 101, 41, 115>>,
   SECTION |-> <<65, 10, 91, 98, 93>>,
   DUPCASE |-> <<65, 10, 195, 137, 61, 49, 10, 195, 169, 61, 50>>,
   SIGMA   |-> <<37, 40, 206, 145, 206, 163, 41, 115, 10, 206, 177, 207, 130, 61, 66>>,
   INTSEP  |-> <<88, 10, 112, 97, 114, 116, 95, 115, 105, 122, 101, 61, 49, 44, 28, 50, 10,
                 91, 68, 69, 70, 65, 85, 76, 84, 93>>]

ModelName(m) ==
  IF m = "Z16" THEN NameZ16
  ELSE IF m \in DOMAIN OddNames THEN OddNames[m]
  ELSE NameOther

GenPayload(k, n) == [j \in 1..n |-> (16 * k + j) % 256]
GenSub(k) == <<200 + k, 201, 202, 203>>
PayloadOf(kind, k) ==
  IF kind = "O" THEN GenPayload(k, 18) ELSE GenPayload(k, 16)
SubOf(kind, k) == IF kind = "S" THEN GenSub(k) ELSE <<>>

GenPartHead(k, pay) ==
  amba_calculate_crc32(pay) \o W(1, 2 + k) \o PackDate(2016, 5, 7 + k)
  \o WordOf(Len(pay)) \o W(\h0010 + k, 0) \o W(0, k) \o PartMagic \o W(0, 1)
  \o Zeros(224)

\* the used slots of a table in order, counted from 1
UsedSet(kinds) == {k \in 1..Len(kinds) : kinds[k] # "E"}
RECURSIVE InOrder(_)
InOrder(S) ==
  IF S = {} THEN <<>>
  ELSE LET m == CHOOSE x \in S : \A y \in S : x <= y
       IN  <<m>> \o InOrder(S \ {m})

\* the partitions of the used slots from the j-th on; acc = [hd, ent, body]
\* holds the running checksum, the entries and the bytes of those before.
\* A slot with an "O" payload is not one amba_create can finish (its fold
\* does not return): the entry of such a slot carries the checksum as it
\* stood before the slot.
RECURSIVE GenParts(_, _, _, _)
GenParts(kinds, used, j, acc) ==
  IF j > Len(used) THEN acc
  ELSE LET k   == used[j]
           pay == PayloadOf(kinds[k], k - 1)
           sub == SubOf(kinds[k], k - 1)
           h   == GenPartHead(k - 1, pay)
           hd  == IF Crc32hReturns(h \o pay)
                  THEN amba_calculate_crc32h_part(h \o pay, acc.hd)
                  ELSE acc.hd
       IN  GenParts(kinds, used, j + 1,
             [hd   |-> hd,
              ent  |-> (k :> MakeEntry(WordOf(SizeofPartHead + Len(pay) + Len(sub)), hd))
                       @@ acc.ent,
              body |-> acc.body \o h \o pay \o sub])

\* the well-formed container of a model name and slots, as amba_create
\* lays it out
GenContainer(m, kinds) ==
  LET p    == GenParts(kinds, InOrder(UsedSet(kinds)), 1,
                       [hd |-> Ones32, ent |-> <<>>, body |-> <<>>])
      ents == [k \in 1..Len(kinds) |->
                 IF kinds[k] = "E" THEN Zeros(SizeofEntry) ELSE p.ent[k]]
      name == ModelName(m) \o Zeros(32 - Len(ModelName(m)))
      main == name \o NotW(p.hd) \o Flatten(ents) \o post_head_data \o p.body
  IN  main \o post_file_data \o amba_calculate_crc32(main)

SetByte(data, off, v) == [data EXCEPT ![off + 1] = v]
Bump(data, off) == [data EXCEPT ![off + 1] = (@ + 1) % 256]
SetBytes(data, off, bs) ==
  [k \in 1..Len(data) |-> IF k > off /\ k <= off + Len(bs) THEN bs[k - off] ELSE data[k]]
Cut(data, n) == SubSeq(data, 1, n)

\* the first used slot, counted from 0
FirstUsed(kinds) == (CHOOSE x \in UsedSet(kinds) : \A y \in UsedSet(kinds) : x <= y) - 1

Mutations ==
  {"magic", "data_crc", "date", "date_old", "pad", "len_small", "len_odd", "len_zero",
   "len_big", "ent_crc", "hdr_crc", "footer", "trailer", "post_head", "marker", "extra",
   "extra_eof", "extra_odd", "no_footer", "no_trailer", "cut_payload", "cut_head", "cut_entry",
   "cut_posthead", "cut_parthead", "cut_all", "magic_early", "len_cover"}

\* the container of a scenario: data is the well-formed container, n the
\* number of its slots, p0 the offset of its first partition header
Mutate(data, mut, kinds) ==
  LET n  == Len(kinds)
      p0 == SizeofModHead + SizeofEntry * n + SizeofPostHead
      L  == Len(data)
  IN  CASE mut = "none"         -> data
        [] mut = "magic"        -> SetByte(data, p0 + 24, 0)
        [] mut = "data_crc"     -> Bump(data, p0)
        [] mut = "date"         -> SetBytes(data, p0 + 8, Zero32)
        [] mut = "date_old"     -> SetBytes(data, p0 + 8, PackDate(2001, 5, 7))
        [] mut = "pad"          -> SetByte(data, p0 + 40, 1)
        [] mut = "len_small"    -> SetBytes(data, p0 + 12, WordOf(12))
        [] mut = "len_odd"      -> SetBytes(data, p0 + 12, WordOf(3))
        [] mut = "len_zero"     -> SetBytes(data, p0 + 12, Zero32)
        [] mut = "len_big"      -> SetBytes(data, p0 + 12, W(\h0800, \h0004))
        [] mut = "ent_crc"      -> Bump(data, SizeofModHead + SizeofEntry * FirstUsed(kinds) + 5)
        [] mut = "hdr_crc"      -> Bump(data, 33)
        [] mut = "footer"       -> Bump(data, L - 1)
        [] mut = "trailer"      -> Bump(data, L - 20)
        [] mut = "post_head"    -> Bump(data, p0 - 1)
        [] mut = "marker"       -> SetBytes(data, p0 - SizeofPostHead,
                                            MakeEntry(WordOf(1024), WordOf(2048)))
        [] mut = "extra"        -> Cut(data, L - 20)
                                   \o GenPartHead(n, GenPayload(n, 16)) \o GenPayload(n, 16)
                                   \o SubSeq(data, L - 19, L)
        [] mut = "extra_eof"    -> Cut(data, L - 20)
                                   \o GenPartHead(n, GenPayload(n, 16)) \o GenPayload(n, 16)
        [] mut = "extra_odd"    -> Cut(data, L - 20)
                                   \o GenPartHead(n, GenPayload(n, 18)) \o GenPayload(n, 18)
                                   \o SubSeq(data, L - 19, L)
        [] mut = "no_footer"    -> Cut(data, L - 4)
        [] mut = "no_trailer"   -> Cut(data, L - 20)
        [] mut = "cut_payload"  -> Cut(data, L - 24)
        [] mut = "cut_head"     -> Cut(data, 30)
        [] mut = "cut_entry"    -> Cut(data, SizeofModHead + 4)
        [] mut = "cut_posthead" -> Cut(data, p0 - 92)
        [] mut = "cut_parthead" -> Cut(data, p0 + 100)
        [] mut = "cut_all"      -> <<>>
        [] mut = "magic_early"  -> Cut(SetBytes(data, 4, PartMagic), 30)
        [] mut = "len_cover"    -> SetBytes(data, p0 + 12, WordOf(2 * 16 + SizeofPartHead))

Kinds == {"E", "P", "S", "O"}
RECURSIVE SeqsUpTo(_, _)
SeqsUpTo(S, n) ==
  IF n = 0 THEN {<<>>}
  ELSE LET prev == SeqsUpTo(S, n - 1)
       IN  prev \cup {Append(s, x) : s \in {t \in prev : Len(t) = n - 1}, x \in S}

Empties(n) == [k \in 1..n |-> "E"]

\* well-formed containers: every table of up to MaxSlots slots under
\* either model name; and short tables after three unused slots (so that
\* the slot of the empty tag is met) or nine (so that a slot beyond the
\* named types is)
WellFormed ==
  {[fam |-> "wf", model |-> m, kinds |-> s, mut |-> "none", edit |-> "none"] :
     m \in {"Z16", "OTHER"}, s \in SeqsUpTo(Kinds, MaxSlots)}
  \cup
  {[fam |-> "wf", model |-> "OTHER", kinds |-> Empties(l) \o s, mut |-> "none",
    edit |-> "none"] :
     l \in {3, 9}, s \in SeqsUpTo(Kinds, 1)}

Bases == {<<"P">>, <<"S">>, <<"E", "P">>, <<"P", "S">>, <<"S", "P">>}

\* one change made to a well-formed container with a partition in it
Changed ==
  {[fam |-> "mut", model |-> "OTHER", kinds |-> s, mut |-> m, edit |-> "none"] :
     s \in Bases, m \in Mutations}

\* tables as long as the detector's limit allows, and longer: n unused
\* slots, followed by an end marker or directly by the post-header block
Long ==
  {[fam |-> "long", model |-> "OTHER", kinds |-> Empties(n), mut |-> m,
    edit |-> "none"] :
     n \in {MaxEntryScan - 1, MaxEntryScan, MaxEntryScan + 1},
     m \in {"none", "marker"}}

Edits == {"drop_sub", "drop_part", "untag", "grow", "odd", "empty", "name_nul", "name_long"}

\* a well-formed container whose artifacts are edited between the
\* extraction and the construction
Edited ==
  {[fam |-> "edit", model |-> m, kinds |-> s, mut |-> "none", edit |-> ed] :
     m \in {"Z16", "OTHER"}, s \in Bases, ed \in Edits}

\* a well-formed container of one partition under each of the odd names
Named ==
  {[fam |-> "name", model |-> m, kinds |-> <<"P">>, mut |-> "none", edit |-> "none"] :
     m \in DOMAIN OddNames}

Scenarios == WellFormed \cup Changed \cup Long \cup Edited \cup Named

Container(s) == Mutate(GenContainer(s.model, s.kinds), s.mut, s.kinds)

(***************************************************************************)
(* main: the commands run one after the other on the same artifacts        *)
(***************************************************************************)
NoCrcCall ==
  /\ hbuf = <<>> /\ hpcrc = Zero32 /\ hcrc = Zero32
  /\ hlen = 0 /\ hidx = 0 /\ hpc = "idle" /\ hiter = 0

\* no version round trip in hand
NoVerCall ==
  /\ vhead = Zeros(SizeofPartHead) /\ vopts = <<>>
  /\ vread = Zeros(SizeofPartHead) /\ vpc = "idle"

\* a call of amba_calculate_crc32h_part that has not been made
NotCalled == [ret |-> FALSE, crc |-> Zero32]

\* no chunked fold in hand
NoFoldCall ==
  /\ ca = <<>> /\ cb = <<>> /\ cs = Zero32
  /\ cwhole = NotCalled /\ cpart = NotCalled /\ cpc = "idle"

\* lines 887-905: -x or -s on the input container, artifacts under
\* prefix 1.  The scenarios with an edit begin with the extraction.
Init ==
  /\ scn \in Scenarios
  /\ fw = [data |-> Container(scn), pos |-> 0]
  /\ dirs = <<EmptyDir, EmptyDir>>
  /\ pfx = 1
  /\ cmd \in (IF scn.edit = "none" THEN {"x", "s"} ELSE {"x"})
  /\ run = (IF cmd = "x" THEN 1 ELSE 0)
  /\ pc = (IF cmd = "x" THEN "x_head" ELSE "s_map")
  /\ status = "run"
  /\ modhead = Zeros(SizeofModHead)
  /\ modentries = <<>>
  /\ ptyp_names = <<>>
  /\ i = 0
  /\ hdcrc = Ones32
  /\ e = Zeros(SizeofPartHead)
  /\ epos = 0
  /\ part_heads = <<>>
  /\ added_part = ""
  /\ warn = {}
  /\ iters = 0
  /\ prev_dtpos = 0
  /\ prev_dtlen = 0
  /\ ran = <<cmd>>
  /\ NoCrcCall
  /\ NoVerCall
  /\ NoFoldCall

\* the user's change to the artifacts of prefix 1: every sub-payload
\* artifact deleted; or, for the first used slot of the table, its payload
\* artifact deleted and its tag taken off part_load; the tag alone taken
\* off; its payload replaced by a longer one, by one of 18 bytes, or by
\* nothing
RECURSIVE Without(_, _)
Without(names, x) ==
  IF names = <<>> THEN <<>>
  ELSE IF Head(names) = x THEN Without(Tail(names), x)
  ELSE <<Head(names)>> \o Without(Tail(names), x)

Remove(f, name) == [n \in DOMAIN f \ {name} |-> f[n]]

\* name_nul and name_long: the model name in the header options replaced
\* by one with a NUL in it, "AB" NUL "CD" and "A" NUL with 40 more bytes
EditDir(d, ed, kinds) ==
  LET k    == FirstUsed(kinds)
      ptyp == amba_a9_part_entry_type_id(k)
      hdr1 == [d.hdr[1] EXCEPT !.part_load = Without(@, ptyp)]
      subs == {d.a9h[t].added_part[1] : t \in DOMAIN d.a9h}
  IN  CASE ed = "drop_sub"  -> [d EXCEPT !.a9s = [n \in DOMAIN @ \ subs |-> @[n]]]
        [] ed = "drop_part" -> [d EXCEPT !.a9s = Remove(@, ptyp), !.hdr = <<hdr1>>]
        [] ed = "untag"     -> [d EXCEPT !.hdr = <<hdr1>>]
        [] ed = "grow"      -> PutA9s(d, ptyp, GenPayload(k + 5, 24))
        [] ed = "odd"       -> PutA9s(d, ptyp, GenPayload(k + 5, 18))
        [] ed = "empty"     -> PutA9s(d, ptyp, <<>>)
        [] ed = "name_nul"  -> [d EXCEPT !.hdr = <<[d.hdr[1] EXCEPT !.model_name =
                                                     <<65, 66, 0, 67, 68>>]>>]
        [] ed = "name_long" -> [d EXCEPT !.hdr = <<[d.hdr[1] EXCEPT !.model_name =
                                                     <<65, 0>> \o [j \in 1..40 |-> 66]]>>]

EditArtifacts ==
  /\ run = 1 /\ status = "done"
  /\ scn.edit # "none"
  /\ dirs' = [dirs EXCEPT ![1] = EditDir(@, scn.edit, scn.kinds)]
  /\ status' = "edited"
  /\ UNCHANGED <<scn, fw, pfx, cmd, run, pc, modhead, modentries, ptyp_names, i,
                 hdcrc, e, epos, part_heads, added_part, warn, iters>>
  /\ UNCHANGED <<crcvars, vervars, foldvars, srchvars, ran>>

\* lines 897-905: -s on the input container after its extraction, the
\* artifacts going under the same prefix
StartSearch ==
  /\ run = 1 /\ cmd = "x" /\ status = "done"
  /\ scn.edit = "none"
  /\ cmd' = "s"
  /\ run' = 0
  /\ pc' = "s_map"
  /\ status' = "run"
  /\ fw' = [fw EXCEPT !.pos = 0]
  /\ modhead' = Zeros(SizeofModHead)
  /\ modentries' = <<>>
  /\ ptyp_names' = <<>>
  /\ i' = 0
  /\ hdcrc' = Ones32
  /\ e' = Zeros(SizeofPartHead)
  /\ epos' = 0
  /\ iters' = 0
  /\ UNCHANGED <<scn, dirs, pfx, part_heads, added_part, warn>>
  /\ UNCHANGED <<crcvars, vervars, foldvars, srchvars>>
  /\ ran' = Append(ran, "s")

\* lines 907-915: -p on the artifacts of the finished extraction or
\* search, into a file opened "w+b"
StartCreate ==
  /\ run \in {0, 1}
  /\ status = IF scn.edit = "none" THEN "done" ELSE "edited"
  /\ cmd' = "p"
  /\ run' = 2
  /\ pc' = "p_head"
  /\ status' = "run"
  /\ fw' = [data |-> <<>>, pos |-> 0]
  /\ modhead' = Zeros(SizeofModHead)
  /\ modentries' = <<>>
  /\ ptyp_names' = <<>>
  /\ i' = 0
  /\ hdcrc' = Ones32
  /\ e' = Zeros(SizeofPartHead)
  /\ epos' = 0
  /\ iters' = 0
  /\ UNCHANGED <<scn, dirs, pfx, part_heads, added_part, warn>>
  /\ UNCHANGED <<crcvars, vervars, foldvars, srchvars>>
  /\ ran' = Append(ran, "p")

\* lines 887-895: -x on the container just written, artifacts under prefix 2
StartExtractAgain ==
  /\ run = 2 /\ status = "done"
  /\ cmd' = "x"
  /\ run' = 3
  /\ pfx' = 2
  /\ pc' = "x_head"
  /\ status' = "run"
  /\ fw' = [fw EXCEPT !.pos = 0]
  /\ modhead' = Zeros(SizeofModHead)
  /\ modentries' = <<>>
  /\ ptyp_names' = <<>>
  /\ i' = 0
  /\ hdcrc' = Ones32
  /\ e' = Zeros(SizeofPartHead)
  /\ epos' = 0
  /\ iters' = 0
  /\ UNCHANGED <<scn, dirs, part_heads, added_part, warn>>
  /\ UNCHANGED <<crcvars, vervars, foldvars, srchvars>>
  /\ ran' = Append(ran, "x")

(***************************************************************************)
(* amba_calculate_crc32h_part step by step: one call on a buffer hbuf from *)
(* the state hpcrc.  hcrc, hlen and hidx are the function's crc, len_buf   *)
(* and i; hiter counts the rounds made by both loops.                      *)
(***************************************************************************)
\* the longest buffer a call is made on, and the rounds a call is followed for
MaxBufLen == 5
MaxCrcIter == 8

CrcBytes == {0, 1, 255}

NoPipeline ==
  /\ scn = [fam |-> "crc", model |-> "OTHER", kinds |-> <<>>, mut |-> "none",
            edit |-> "none"]
  /\ fw = [data |-> <<>>, pos |-> 0]
  /\ dirs = <<EmptyDir, EmptyDir>>
  /\ pfx = 1 /\ cmd = "h" /\ run = 1 /\ pc = "h_call" /\ status = "run"
  /\ modhead = Zeros(SizeofModHead) /\ modentries = <<>> /\ ptyp_names = <<>>
  /\ i = 0 /\ hdcrc = Ones32 /\ e = Zeros(SizeofPartHead) /\ epos = 0
  /\ part_heads = <<>> /\ added_part = "" /\ warn = {} /\ iters = 0
  /\ prev_dtpos = 0 /\ prev_dtlen = 0 /\ ran = <<>>

\* lines 412-414: crc = pcrc, len_buf = len(buf), i = 0
InitCrc ==
  /\ NoPipeline
  /\ NoVerCall
  /\ NoFoldCall
  /\ hbuf \in SeqsUpTo(CrcBytes, MaxBufLen)
  /\ hpcrc \in {Zero32, Ones32}
  /\ hcrc = hpcrc
  /\ hlen = Len(hbuf)
  /\ hidx = 0
  /\ hpc = "loop4"
  /\ hiter = 0

\* lines 415-421: a round of the first loop
H_Step4 ==
  /\ hpc = "loop4"
  /\ hlen >= 4
  /\ hcrc' = Crc32hStep4(hbuf, hidx + 1, hcrc)
  /\ hlen' = hlen - 4
  /\ hidx' = hidx + 4
  /\ hiter' = hiter + 1
  /\ UNCHANGED <<hbuf, hpcrc, hpc>>
  /\ UNCHANGED <<pipevars, vervars, foldvars>>

\* line 415: the first loop is left
H_Exit4 ==
  /\ hpc = "loop4"
  /\ hlen < 4
  /\ hpc' = "loop1"
  /\ UNCHANGED <<hbuf, hpcrc, hcrc, hlen, hidx, hiter>>
  /\ UNCHANGED <<pipevars, vervars, foldvars>>

\* lines 422-424: a round of the second loop; neither len_buf nor i is
\* assigned
H_Step1 ==
  /\ hpc = "loop1"
  /\ hlen # 0
  /\ hiter < MaxCrcIter
  /\ hcrc' = Crc32hStep1(hbuf[hidx + 1], hcrc)
  /\ hiter' = hiter + 1
  /\ UNCHANGED <<hbuf, hpcrc, hlen, hidx, hpc>>
  /\ UNCHANGED <<pipevars, vervars, foldvars>>

\* line 425: return crc & 0xffffffff
H_Return ==
  /\ hpc = "loop1"
  /\ hlen = 0
  /\ hpc' = "ret"
  /\ UNCHANGED <<hbuf, hpcrc, hcrc, hlen, hidx, hiter>>
  /\ UNCHANGED <<pipevars, vervars, foldvars>>

NextCrc == H_Step4 \/ H_Exit4 \/ H_Step1 \/ H_Return

SpecCrc == InitCrc /\ [][NextCrc]_vars

(***************************************************************************)
(* The version word through the partition's options: a header is exported  *)
(* by FwModPartHeader.dict_export and the options are packed again by      *)
(* amba_read_part_head.  The majors are 0..MaxVerMajor and 65535, the      *)
(* minors 0..MaxVerMinor, 65534 and 65535.                                 *)
(***************************************************************************)
MaxVerMajor == 2
MaxVerMinor == 9

VerMajors == (0..MaxVerMajor) \cup {65535}
VerMinors == (0..MaxVerMinor) \cup {65534, 65535}

\* a FwModPartHeader with its version field set
InitVer ==
  /\ NoPipeline
  /\ NoCrcCall
  /\ NoFoldCall
  /\ \E major \in VerMajors, minor \in VerMinors :
       vhead = SetField(Zeros(SizeofPartHead), 4, W(major, minor))
  /\ vopts = <<>>
  /\ vread = Zeros(SizeofPartHead)
  /\ vpc = "export"

\* lines 216-223: dict_export
V_Export ==
  /\ vpc = "export"
  /\ vopts' = <<[PartHeadExport(vhead) EXCEPT !.added_part = <<"">>]>>
  /\ vpc' = "read"
  /\ UNCHANGED <<vhead, vread>>
  /\ UNCHANGED <<pipevars, crcvars, foldvars>>

\* lines 446-465: amba_read_part_head
V_Read ==
  /\ vpc = "read"
  /\ vread' = amba_read_part_head(vopts[1])
  /\ vpc' = "done"
  /\ UNCHANGED <<vhead, vopts>>
  /\ UNCHANGED <<pipevars, crcvars, foldvars>>

NextVer == V_Export \/ V_Read

SpecVer == InitVer /\ [][NextVer]_vars

(***************************************************************************)
(* The cumulative checksum of a buffer folded in one call and in two: the  *)
(* buffer is ca ++ cb, ca of whole 4-byte groups (the chunks of the copy   *)
(* loops are of 1 MiB, the header of 256 bytes), cb of any length up to    *)
(* MaxTailLen.  A call on a buffer that is not of whole groups does not    *)
(* return.                                                                 *)
(***************************************************************************)
MaxHeadGroups == 1
MaxTailLen == 5

FoldBytes == {1, 255}

\* the buffers of whole 4-byte groups, up to n groups
Grouped(n) == UNION {[1..(4 * g) -> FoldBytes] : g \in 0..n}

\* amba_calculate_crc32h_part(buf, pcrc) as a call: whether it returns,
\* and the value it returns
Crc32hCall(buf, pcrc) ==
  [ret |-> Crc32hReturns(buf),
   crc |-> IF Crc32hReturns(buf) THEN amba_calculate_crc32h_part(buf, pcrc)
           ELSE Zero32]

InitFold ==
  /\ NoPipeline
  /\ NoCrcCall
  /\ NoVerCall
  /\ ca \in Grouped(MaxHeadGroups)
  /\ cb \in SeqsUpTo(FoldBytes, MaxTailLen)
  /\ cs \in {Zero32, Ones32, <<1, 2, 3, 4>>}
  /\ cwhole = NotCalled
  /\ cpart = NotCalled
  /\ cpc = "whole"

\* one call over the whole buffer
F_Whole ==
  /\ cpc = "whole"
  /\ cwhole' = Crc32hCall(ca \o cb, cs)
  /\ cpc' = "head"
  /\ UNCHANGED <<ca, cb, cs, cpart>>
  /\ UNCHANGED <<pipevars, crcvars, vervars>>

\* the call on the first chunk
F_Head ==
  /\ cpc = "head"
  /\ cpart' = Crc32hCall(ca, cs)
  /\ cpc' = "tail"
  /\ UNCHANGED <<ca, cb, cs, cwhole>>
  /\ UNCHANGED <<pipevars, crcvars, vervars>>

\* the call on the rest, from the state the first call returned
F_Tail ==
  /\ cpc = "tail"
  /\ cpart' = Crc32hCall(cb, cpart.crc)
  /\ cpc' = "done"
  /\ UNCHANGED <<ca, cb, cs, cwhole>>
  /\ UNCHANGED <<pipevars, crcvars, vervars>>

NextFold == F_Whole \/ F_Head \/ F_Tail

SpecFold == InitFold /\ [][NextFold]_vars

\* a call that returns does so with the value of the operator the
\* pipeline uses, and only a buffer of whole 4-byte groups returns
CrcCallAgrees ==
  hpc = "ret" => /\ Crc32hReturns(hbuf)
                 /\ hcrc = amba_calculate_crc32h_part(hbuf, hpcrc)

Next ==
  \/ X_ReadHead \/ X_DetectShort \/ X_DetectMarker \/ X_DetectOversize
  \/ X_DetectRetain \/ X_PostHead
  \/ X_SkipSlot \/ X_EndOfFile \/ X_Trailer \/ X_Truncated \/ X_PartHead
  \/ X_Payload \/ X_NoAddedPart \/ X_AddedPart \/ X_Final
  \/ P_ReadModHead \/ P_WriteHead
  \/ P_SlotsDone \/ P_SlotAbsent \/ P_SlotMissing \/ P_SlotEmpty \/ P_PartHead
  \/ P_Copy \/ P_AddedMissing \/ P_Patch \/ P_Trailer
  \/ P_CrcDone \/ P_CrcSkip \/ P_CrcMissing \/ P_CrcSlot
  \/ P_Rewrite \/ P_Footer
  \/ S_MapEmpty \/ S_Map \/ S_NotFound \/ S_TooEarly \/ S_ShortHead
  \/ S_FalsePositive \/ S_Extract
  \/ EditArtifacts \/ StartSearch \/ StartCreate \/ StartExtractAgain

Spec == Init /\ [][Next]_vars

(***************************************************************************)
(* Properties                                                              *)
(***************************************************************************)
\* the offset of the first partition header of a container of n slots
BodyOffset(n) == SizeofModHead + SizeofEntry * n + SizeofPostHead

\* the checksum field of the container header at the head of a file
StoredCrc(data) == MH_crc32(SubSeq(data, 1, SizeofModHead))

\* the kinds of warning that report a checksum mismatch
ChecksumKinds == {"data_crc", "cum_crc", "total_crc"}

\* C1: for every valid container, the extraction, the construction from
\* its artifacts and the extraction of the rebuilt container (no search
\* run in between) all complete,
\* the second extraction writes the raw artifacts of the first, and it
\* reports no checksum mismatch.
C1_RoundTrip ==
  (scn.fam = "wf" /\ ~InList("s", ran)) =>
    /\ status \notin {"fatal", "hang"}
    /\ (run = 3 /\ status = "done") =>
         /\ dirs[2].a9s = dirs[1].a9s
         /\ \A w \in warn : ~(w[1] = 3 /\ w[2] \in ChecksumKinds)

\* the cumulative state after folding, for each slot from the k-th on whose
\* declared length is not zero, the 256 header bytes found at pos and the
\* payload bytes the header counts; a slot takes up its declared length,
\* or its header and payload when that is more
RECURSIVE CumOfFile(_, _, _, _, _)
CumOfFile(data, entries, k, pos, crc) ==
  IF k > Len(entries) THEN crc
  ELSE IF ME_dt_len(entries[k]) = Zero32
       THEN CumOfFile(data, entries, k + 1, pos, crc)
  ELSE LET h    == SubSeq(data, pos + 1, Min(pos + SizeofPartHead, Len(data)))
           n    == Val(PH_dt_len(IntoStruct(h, SizeofPartHead)))
           pay  == SubSeq(data, pos + SizeofPartHead + 1,
                          Min(pos + SizeofPartHead + n, Len(data)))
           used == SizeofPartHead + n
           decl == Val(ME_dt_len(entries[k]))
       IN  CumOfFile(data, entries, k + 1,
                     pos + (IF decl > used THEN decl ELSE used),
                     amba_calculate_crc32h_part(h \o pay, crc))

\* every slot the table declares non-empty was written by the first pass
AllDeclaredWritten ==
  \A k \in 1..Len(modentries) :
    ME_dt_len(modentries[k]) # Zero32 => part_heads[k] # Zeros(SizeofPartHead)

\* the extraction went through the whole table and met no partition
\* beyond it, and every header it read counts a payload of sound length
ReadWholeTable ==
  /\ cmd = "x" /\ status = "done" /\ i = Len(modentries)
  /\ \A w \in warn : w[1] = run => w[2] \notin {"bad_size", "data_continues"}

\* C2: the checksum in the container header is the complement of the
\* state folded from 0xFFFFFFFF, in slot order, over the header bytes and
\* the payload bytes of the slots declared non-empty, and over nothing
\* else: construction stamps it, and extraction reports a mismatch exactly
\* when the stored value differs from it.
C2_HeaderChecksum ==
  /\ (run = 2 /\ status = "done" /\ AllDeclaredWritten) =>
       StoredCrc(fw.data) =
         NotW(CumOfFile(fw.data, modentries, 1, BodyOffset(Len(modentries)), Ones32))
  /\ ReadWholeTable =>
       (<<run, "total_crc", 0>> \in warn
          <=> StoredCrc(fw.data) #
                NotW(CumOfFile(fw.data, modentries, 1,
                               BodyOffset(Len(modentries)), Ones32)))

C2_Witness ==
  /\ run = 2 /\ status = "done" /\ AllDeclaredWritten
  /\ scn.kinds = <<"S", "P">> /\ scn.mut = "none" /\ scn.edit = "none"

\* C2 as stated: the fold covers the entry table first, then the
\* partitions.
C2_FoldsEntryTable ==
  (run = 2 /\ status = "done" /\ AllDeclaredWritten) =>
    StoredCrc(fw.data) =
      NotW(CumOfFile(fw.data, modentries, 1, BodyOffset(Len(modentries)),
             amba_calculate_crc32h_part(
               SubSeq(fw.data, SizeofModHead + 1,
                      SizeofModHead + SizeofEntry * Len(modentries)), Ones32)))

\* C3: the footer of a constructed container is the standard CRC32 of the
\* file without its last 20 bytes: the trailer block is not covered.
C3_FooterSkipsTrailer ==
  (run = 2 /\ status = "done") =>
    Footer(fw.data) = amba_calculate_crc32(SubSeq(fw.data, 1, Len(fw.data) - 20))

C3_Witness ==
  /\ run = 2 /\ status = "done"
  /\ scn.kinds = <<"P", "S">> /\ scn.mut = "none" /\ scn.edit = "none"

\* C3 as stated: the footer covers everything but the last 4 bytes.
C3_FooterCoversTrailer ==
  (run = 2 /\ status = "done") =>
    Footer(fw.data) = amba_calculate_crc32(SubSeq(fw.data, 1, Len(fw.data) - 4))

\* C4: a call returns after one round for each whole 4-byte group and one
\* for each trailing byte at most.
C4_Terminates == hiter <= (Len(hbuf) \div 4) + (Len(hbuf) % 4)

\* C5: the detector reads 129 entries at most; it gives up when the 129th
\* entry read is kept, having kept all 129, and it stops normally on any
\* of its first 129 reads, after a table of 128 entries at most.
C5_ScanBound ==
  cmd = "x" =>
    /\ iters <= MaxEntryScan + 1
    /\ (pc = "x_detect" /\ status = "run") =>
         iters = Len(modentries) /\ iters <= MaxEntryScan
    /\ pc = "x_posthead" =>
         iters = Len(modentries) + 1 /\ Len(modentries) <= MaxEntryScan
    /\ (pc = "x_detect" /\ status = "fatal") =>
         IF Len(modentries) = iters
         THEN iters = MaxEntryScan + 1
         ELSE iters = Len(modentries) + 1 /\ fw.pos = Len(fw.data)

C5_Witness ==
  /\ cmd = "x" /\ pc = "x_detect" /\ status = "fatal"
  /\ iters = MaxEntryScan + 1 /\ Len(modentries) = MaxEntryScan + 1

\* C5 as stated: the scan loop never runs more than 128 times.
C5_AtMost128 == cmd = "x" => iters <= MaxEntryScan

\* C6: when the detector has stopped, the table kept is the entries of the
\* file before the position, the position is at the first byte of the
\* entry that made it stop, which is not in the table, and the post-header
\* block is the 192 bytes read from there.
C6_StopPutsEntryBack ==
  cmd = "x" =>
    /\ (pc = "x_posthead" /\ status = "run") =>
         /\ fw.pos = SizeofModHead + SizeofEntry * Len(modentries)
         /\ Flatten(modentries) = SubSeq(fw.data, SizeofModHead + 1, fw.pos)
         /\ IsEndMarker(ReadAt(fw, SizeofEntry))
              \/ IsOversize(ReadAt(fw, SizeofEntry), Len(modentries), Len(fw.data))
    /\ (pc = "x_loop" /\ i = -1) =>
         /\ fw.pos = BodyOffset(Len(modentries))
         /\ LET blk == SubSeq(fw.data, fw.pos - SizeofPostHead + 1, fw.pos)
            IN  blk # post_head_data => Dir.a9s["post_head_data"] = blk

C6_Witness ==
  /\ cmd = "x" /\ pc = "x_posthead" /\ status = "run"
  /\ Len(modentries) >= 1
  /\ IsEndMarker(ReadAt(fw, SizeofEntry))

\* the sub-payload artifact a partition's options name, empty if none
SubBytes(d, tag) ==
  IF d.a9h[tag].added_part[1] = "" THEN <<>> ELSE d.a9s[d.a9h[tag].added_part[1]]

\* what the first k slots put into the container, a slot passed over
\* putting in the bytes skipped
RECURSIVE BodyWritten(_, _)
BodyWritten(k, skipped) ==
  IF k = 0 THEN <<>>
  ELSE BodyWritten(k - 1, skipped)
       \o (IF part_heads[k] = Zeros(SizeofPartHead) THEN skipped
           ELSE part_heads[k] \o Dir.a9s[amba_a9_part_entry_type_id(k - 1)]
                \o SubBytes(Dir, amba_a9_part_entry_type_id(k - 1)))

BetweenSlots == cmd = "p" /\ pc \in {"p_slot", "p_trailer"} /\ status = "run"

\* the slot construction comes to next has no non-empty payload artifact:
\* its tag is absent from part_load, or its artifact is empty
NextSlotSkipped ==
  /\ Running("p", "p_slot")
  /\ i + 1 < Len(modentries)
  /\ IF ~InList(amba_a9_part_entry_type_id(i + 1), ptyp_names) THEN TRUE
     ELSE /\ amba_a9_part_entry_type_id(i + 1) \in DOMAIN Dir.a9s
          /\ Dir.a9s[amba_a9_part_entry_type_id(i + 1)] = <<>>

\* C7: a slot passed over by construction (its tag absent from part_load,
\* or its payload artifact empty) puts no byte into the container: the step
\* that handles it leaves the container as it is and only appends an
\* all-zero header to part_heads, so that between two slots the container
\* holds, behind the post-header block, the bytes of the written slots and
\* nothing for the slots passed over.
C7_SkippedSlotWritesNothing ==
  /\ [](BetweenSlots =>
          SubSeq(fw.data, BodyOffset(Len(modentries)) + 1, Len(fw.data))
            = BodyWritten(Len(part_heads), <<>>))
  /\ [][NextSlotSkipped =>
          /\ fw' = fw
          /\ part_heads' = Append(part_heads, Zeros(SizeofPartHead))
          /\ i' = i + 1
          /\ status' = "run"]_vars

C7_Witness ==
  /\ cmd = "p" /\ pc = "p_trailer" /\ status = "run"
  /\ \E k \in 1..Len(part_heads) : part_heads[k] = Zeros(SizeofPartHead)
  /\ \E k \in 1..Len(part_heads) : part_heads[k] # Zeros(SizeofPartHead)

\* C7 as stated: a slot passed over puts 256 zero bytes into the container.
C7_PlaceholderEmitted ==
  BetweenSlots =>
    SubSeq(fw.data, BodyOffset(Len(modentries)) + 1, Len(fw.data))
      = BodyWritten(Len(part_heads), Zeros(SizeofPartHead))

\* the number of bytes the last read of a partition header returned, and
\* whether that read was a short one
LastHeaderRead == Min(SizeofPartHead, Len(fw.data) - epos)
ShortHeaderRead ==
  /\ cmd = "x" /\ pc \in {"x_loop", "x_final"}
  /\ epos > 0 /\ LastHeaderRead < SizeofPartHead

\* C8: a read of 0 bytes ends the extraction normally; a read of 20 bytes
\* ends it normally when the slot index equals the number of table entries
\* and is fatal at any other index; every other short read is fatal.
C8_ShortHeaderRead ==
  ShortHeaderRead =>
    IF LastHeaderRead = 0 \/ (LastHeaderRead = 20 /\ i = Len(modentries))
    THEN status # "fatal" /\ pc = "x_final"
    ELSE status = "fatal" /\ pc = "x_loop"

C8_Witness ==
  /\ ShortHeaderRead
  /\ LastHeaderRead = 20 /\ i # Len(modentries)
  /\ status = "fatal"

\* C8 as stated: a read of 20 bytes ends the extraction normally whatever
\* the slot index.
C8_TrailerAtAnySlot ==
  ShortHeaderRead =>
    IF LastHeaderRead = 0 \/ LastHeaderRead = 20
    THEN status # "fatal" /\ pc = "x_final"
    ELSE status = "fatal" /\ pc = "x_loop"

\* the kinds of warning about one partition
PartAnomalies ==
  {"magic", "bad_size", "data_crc", "cum_crc", "date", "date_old", "padding"}

\* C9: after an anomaly is reported for the slot in hand, the extraction
\* neither aborts nor stops at that slot, and the slot's payload artifact
\* and options are written.
C9_AnomaliesNonFatal ==
  \A w \in warn :
    (cmd = "x" /\ w[1] = run /\ w[2] \in PartAnomalies /\ w[3] = i) =>
      /\ status \notin {"fatal", "hang"}
      /\ amba_a9_part_entry_type_id(i) \in DOMAIN Dir.a9h
      /\ amba_a9_part_entry_type_id(i) \in DOMAIN Dir.a9s

\* a container in which only the footer is wrong
OnlyFooterWrong == run = 1 /\ scn.mut = "footer"

\* C10: extraction makes nothing of the footer: a container in which only
\* the footer is wrong is extracted to the end with no report but the one
\* its well-formed original gets, and the position ends 4 bytes before the
\* end of the file.
C10_FooterNotChecked ==
  OnlyFooterWrong =>
    /\ status \notin {"fatal", "hang"}
    /\ \A w \in warn : w[2] = "detect_unusual"
    /\ status = "done" => fw.pos = Len(fw.data) - 4

C10_Witness == OnlyFooterWrong /\ status = "done" /\ FooterDiffers(fw.data)

\* C10 as stated: a wrong footer is reported when the extraction is done.
C10_FooterMismatchReported ==
  (OnlyFooterWrong /\ status = "done") =>
    \E w \in warn : w[2] # "detect_unusual"

(***************************************************************************)
(* C11  Construction aborts on an unrecognized tag before writing.         *)
(***************************************************************************)
\* the part_load list of the header options of the directory being built
\* names a tag that is not one of the recognized type tags
UnknownTagListed ==
  /\ Dir.hdr # <<>>
  /\ ReadModHead(Dir.hdr[1]).ok
  /\ \E k \in 1..Len(ReadModHead(Dir.hdr[1]).ptyp_names) :
       ReadModHead(Dir.hdr[1]).ptyp_names[k] \notin
         {part_entry_type_id[n] : n \in 1..Len(part_entry_type_id)}

\* C11: whenever the part_load list of the container metadata holds a tag
\* that is not a recognized partition type tag, construction never gets past
\* reading the metadata, it ends with a fatal error and never completes, and
\* the destination container holds no byte.
C11_UnknownTagAborts ==
  (cmd = "p" /\ UnknownTagListed) =>
     /\ pc = "p_head"
     /\ status \in {"run", "fatal"}
     /\ fw.data = <<>>

\* construction has aborted on the tag of a slot beyond the named types
C11_Witness ==
  /\ cmd = "p" /\ UnknownTagListed
  /\ status = "fatal"
  /\ fw.data = <<>>

(***************************************************************************)
(* C12  Length accounting of a constructed container.                      *)
(***************************************************************************)
\* the number of bytes construction wrote for slot k (counted from 1): the
\* header, the payload and the sub-payload, or nothing for a slot passed over
SlotBytes(k) ==
  IF part_heads[k] = Zeros(SizeofPartHead) THEN 0
  ELSE SizeofPartHead + Len(Dir.a9s[amba_a9_part_entry_type_id(k - 1)])
       + Len(SubBytes(Dir, amba_a9_part_entry_type_id(k - 1)))

RECURSIVE SumDeclared(_, _)
SumDeclared(entries, k) ==
  IF k = 0 THEN 0
  ELSE SumDeclared(entries, k - 1) + Val(ME_dt_len(entries[k]))

ConstructionDone == cmd = "p" /\ status = "done"

\* C12: after construction completes, every entry's declared length is the
\* number of bytes construction wrote for that slot (header, payload and
\* sub-payload, or 0), so container header, table, post-header block,
\* declared lengths, trailer block and footer add up to the file length.
C12_LengthAccounting ==
  ConstructionDone =>
    /\ \A k \in 1..Len(modentries) :
         Val(ME_dt_len(modentries[k])) = SlotBytes(k)
    /\ Len(fw.data) =
         SizeofModHead + SizeofEntry * Len(modentries)
         + Len(FixedBlock(Dir, "post_head_data", post_head_data))
         + SumDeclared(modentries, Len(modentries))
         + Len(FixedBlock(Dir, "post_file_data", post_file_data)) + 4

(***************************************************************************)
(* C13  The version word through the sidecar text.                         *)
(***************************************************************************)
\* C13: for every 32-bit version value v, exporting it as the text
\* "major.minor" and packing that text again gives back exactly v.
C13_VersionRoundTrip ==
  vpc = "done" => PH_version(vread) = PH_version(vhead)

(***************************************************************************)
(* C14  Zero-length entries of the table.                                  *)
(***************************************************************************)
\* the k-th entry of the table as it stands in the container
FileEntry(k) ==
  SubSeq(fw.data, SizeofModHead + SizeofEntry * (k - 1) + 1,
         SizeofModHead + SizeofEntry * k)

\* the type names of the first k entries that are of non-zero length
RECURSIVE UsedNames(_, _)
UsedNames(entries, k) ==
  IF k = 0 THEN <<>>
  ELSE UsedNames(entries, k - 1)
       \o (IF ME_dt_len(entries[k]) # Zero32
           THEN <<amba_a9_part_entry_type_id(k - 1)>> ELSE <<>>)

TableDetected == cmd = "x" /\ pc \notin {"x_head", "x_detect"}

\* the table holds every entry of the file at its own index, the names
\* are those of the indices of non-zero length, and an entry of zero
\* length has neither a payload artifact nor a metadata record
ZeroEntriesRetained ==
  TableDetected =>
    /\ \A k \in 1..Len(modentries) : modentries[k] = FileEntry(k)
    /\ ptyp_names = UsedNames(modentries, Len(modentries))
    /\ \A k \in 1..Len(modentries) :
         ME_dt_len(modentries[k]) = Zero32 =>
           /\ amba_a9_part_entry_type_id(k - 1) \notin DOMAIN Dir.a9s
           /\ amba_a9_part_entry_type_id(k - 1) \notin DOMAIN Dir.a9h

\* the extraction loop passes a slot of zero length
PassesZeroSlot ==
  /\ Running("x", "x_loop")
  /\ i + 1 < Len(modentries)
  /\ ME_dt_len(modentries[i + 2]) = Zero32

\* C14: a zero-length entry the boundary detector reads without stopping is
\* kept in the table at its own index, so later entries keep index and type
\* name; extraction passes such a slot without consuming a byte of the
\* container and without writing a payload artifact or a metadata record.
C14_ZeroEntryKept ==
  /\ []ZeroEntriesRetained
  /\ [][PassesZeroSlot => (i' = i + 1 /\ UNCHANGED <<fw, dirs, modentries, ptyp_names>>)]_vars

\* a slot of zero length was passed and a later slot of the table extracted
\* under the name of its own index
C14_Witness ==
  /\ cmd = "x" /\ run = 1 /\ status = "done"
  /\ \E k \in 1..Len(modentries) :
       /\ ME_dt_len(modentries[k]) = Zero32
       /\ \E j \in (k + 1)..Len(modentries) :
            /\ ME_dt_len(modentries[j]) # Zero32
            /\ amba_a9_part_entry_type_id(j - 1) \in DOMAIN Dir.a9s
            /\ Dir.a9s[amba_a9_part_entry_type_id(j - 1)] # <<>>

(***************************************************************************)
(* C15  The header patch-back of construction.                             *)
(***************************************************************************)
\* the offset at which slot k (counted from 1) begins in the output
RECURSIVE SlotOffset(_)
SlotOffset(k) ==
  IF k = 1 THEN BodyOffset(Len(modentries))
  ELSE SlotOffset(k - 1) + SlotBytes(k - 1)

\* slot k was written: its finished header stands at the reserved offset
\* with the payload's length and standard checksum, payload and sub-payload
\* follow it unaltered, and the entry declares the three lengths together
SlotPatched(k) ==
  LET tag == amba_a9_part_entry_type_id(k - 1)
      pay == Dir.a9s[tag]
      sub == SubBytes(Dir, tag)
      off == SlotOffset(k)
      hd  == SubSeq(fw.data, off + 1, off + SizeofPartHead)
  IN  /\ hd = part_heads[k]
      /\ PH_dt_len(hd) = WordOf(Len(pay))
      /\ PH_crc32(hd) = amba_calculate_crc32(pay)
      /\ SubSeq(hd, 5, SizeofPartHead) =
           SubSeq(SetField(amba_read_part_head(Dir.a9h[tag]), 12, WordOf(Len(pay))),
                  5, SizeofPartHead)
      /\ SubSeq(fw.data, off + SizeofPartHead + 1,
                off + SizeofPartHead + Len(pay) + Len(sub)) = pay \o sub
      /\ Val(ME_dt_len(modentries[k])) = SizeofPartHead + Len(pay) + Len(sub)

\* C15: once a non-empty slot is finished, the 256 bytes at the offset
\* reserved before streaming hold the header with the length and the
\* standard checksum of the primary payload alone, payload and sub-payload
\* stand unaltered behind it, the entry declares 256 + payload + sub-payload
\* bytes, and the write position is back at the end of the written data.
C15_PatchBack ==
  BetweenSlots =>
    /\ \A k \in 1..Len(part_heads) :
         part_heads[k] # Zeros(SizeofPartHead) => SlotPatched(k)
    /\ fw.pos = Len(fw.data)
    /\ Len(part_heads) > 0 =>
         fw.pos = SlotOffset(Len(part_heads)) + SlotBytes(Len(part_heads))
    /\ (Len(part_heads) > 0 /\ part_heads[Len(part_heads)] # Zeros(SizeofPartHead))
         => epos = SlotOffset(Len(part_heads))

\* two slots were written one after the other, the first with a
\* sub-payload, and both are finished
C15_Witness ==
  /\ cmd = "p" /\ pc = "p_trailer" /\ status = "run"
  /\ Len(part_heads) = 2
  /\ part_heads[1] # Zeros(SizeofPartHead)
  /\ part_heads[2] # Zeros(SizeofPartHead)
  /\ SubBytes(Dir, amba_a9_part_entry_type_id(0)) # <<>>

(***************************************************************************)
(* C16  The second pass of construction against extraction.                *)
(***************************************************************************)
\* the container written by construction is being extracted again
ExtractsBuilt == cmd = "x" /\ run = 3

\* C16: extraction of a container written by construction folds what the
\* second pass folded: after the header and payload of a slot of non-zero
\* declared length the running state is the checksum stamped into that
\* slot's entry, every such slot is reached, and the complemented final
\* state is the checksum of the container header.
C16_SameFold ==
  ExtractsBuilt =>
    /\ (pc = "x_added" /\ status = "run" /\ i < Len(modentries))
         => ME_crc32(modentries[i + 1]) = hdcrc
    /\ status \in {"run", "done"}
    /\ status = "done" =>
         /\ i = Len(modentries)
         /\ hdcrc = StoredCrc(fw.data)

(***************************************************************************)
(* C17  The final rewrite of the container header and the table.           *)
(***************************************************************************)
\* the end of the region of container header and table
TableEnd == SizeofModHead + SizeofEntry * Len(modentries)

\* what the first write put there: the header and entries of the options
FirstWritten == ReadModHead(Dir.hdr[1])

\* what the first pass left behind the table
BehindTable ==
  FixedBlock(Dir, "post_head_data", post_head_data)
  \o BodyWritten(Len(part_heads), <<>>)
  \o FixedBlock(Dir, "post_file_data", post_file_data)

AfterRewrite == cmd = "p" /\ pc = "p_footer" /\ status = "run"

\* the rewritten region holds the container header and the table as they
\* stand, the rest of the file is what the first pass left
RewriteFrame ==
  AfterRewrite =>
    /\ SubSeq(fw.data, 1, TableEnd) = modhead \o Flatten(modentries)
    /\ SubSeq(fw.data, TableEnd + 1, Len(fw.data)) = BehindTable

\* against the first write the model name is the same, a slot passed over
\* keeps its declared length, and a written slot declares what was written
RewriteChanges ==
  AfterRewrite =>
    /\ MH_model_name(modhead) = MH_model_name(FirstWritten.modhead)
    /\ Len(modentries) = Len(FirstWritten.modentries)
    /\ \A k \in 1..Len(modentries) :
         ME_dt_len(modentries[k]) =
           IF part_heads[k] = Zeros(SizeofPartHead)
           THEN ME_dt_len(FirstWritten.modentries[k])
           ELSE WordOf(SlotBytes(k))

\* C17: the final rewrite writes exactly the bytes at [0, 36 + 8*N) and
\* leaves post-header block, partitions and trailer block as they were; in
\* the rewritten region the model name is the one first written, and apart
\* from the checksum fields an entry differs from what was first written
\* only in the declared length of a written slot, which is the number of
\* bytes written for it.
C17_RewriteFrame ==
  /\ [](RewriteFrame /\ RewriteChanges)
  /\ [][Running("p", "p_rewrite") =>
          /\ Len(fw'.data) = Len(fw.data)
          /\ SubSeq(fw'.data, TableEnd + 1, Len(fw.data))
               = SubSeq(fw.data, TableEnd + 1, Len(fw.data))
          /\ SubSeq(fw.data, 1, SizeofModHead - 4) = MH_model_name(modhead)]_vars

\* a rewrite that changed the declared length of a written slot
C17_Witness ==
  /\ AfterRewrite
  /\ \E k \in 1..Len(modentries) :
       /\ part_heads[k] # Zeros(SizeofPartHead)
       /\ ME_dt_len(modentries[k]) # ME_dt_len(FirstWritten.modentries[k])
  /\ MH_crc32(modhead) # Zero32

\* C17 as stated: in the rewritten region only the checksum fields differ
\* from what was first written.
C17_OnlyChecksumsDiffer ==
  AfterRewrite =>
    /\ SubSeq(fw.data, TableEnd + 1, Len(fw.data)) = BehindTable
    /\ MH_model_name(SubSeq(fw.data, 1, SizeofModHead))
         = MH_model_name(FirstWritten.modhead)
    /\ \A k \in 1..Len(modentries) :
         ME_dt_len(FileEntry(k)) = ME_dt_len(FirstWritten.modentries[k])

(***************************************************************************)
(* C18  The sub-payload split of extraction.                               *)
(***************************************************************************)
\* extraction has just finished slot i, a slot of the table: its header
\* was read and its added_part option written
SlotExtracted ==
  /\ cmd = "x" /\ status = "run" /\ pc \in {"x_loop", "x_final"}
  /\ i >= 0 /\ i < Len(modentries)
  /\ ME_dt_len(modentries[i + 1]) # Zero32
  /\ amba_a9_part_entry_type_id(i) \in DOMAIN Dir.a9h
  /\ Dir.a9h[amba_a9_part_entry_type_id(i)].added_part # <<>>

\* C18: when extraction has finished a slot of the table, a sub-payload
\* artifact exists for it if and only if entry.length > 256 + header.length;
\* it then holds exactly the entry.length - 256 - header.length bytes behind
\* the primary payload, added_part names it, and the position is slot start
\* + entry.length; otherwise added_part is empty and the position is the end
\* of the primary payload.
C18_SubPayloadSplit ==
  SlotExtracted =>
    LET ptyp   == amba_a9_part_entry_type_id(i)
        name   == AddedPartName(modhead, ptyp)
        entlen == Val(ME_dt_len(modentries[i + 1]))
        paylen   == Val(PH_dt_len(e))
    IN  IF entlen > SizeofPartHead + paylen
        THEN /\ name \in DOMAIN Dir.a9s
             /\ Dir.a9s[name] =
                  ReadAt([data |-> fw.data, pos |-> epos + SizeofPartHead + paylen],
                         entlen - SizeofPartHead - paylen)
             /\ Len(Dir.a9s[name]) = entlen - SizeofPartHead - paylen
             /\ Dir.a9h[ptyp].added_part = <<name>>
             /\ fw.pos = epos + entlen
        ELSE /\ Dir.a9h[ptyp].added_part = <<"">>
             /\ fw.pos = epos + SizeofPartHead + Len(Dir.a9s[ptyp])
             /\ (ptyp \o "_bis") \notin DOMAIN Dir.a9s

(***************************************************************************)
(* C19  Data beyond the declared table.                                    *)
(***************************************************************************)
\* the running extraction has read a whole partition header at a slot
\* beyond the table
BeyondTable == \E w \in warn : w[1] = run /\ w[2] = "data_continues"

\* the extraction has finished a slot beyond the table and iterates
BeyondSlotExtracted ==
  Running("x", "x_loop") /\ i >= 0 /\ i >= Len(modentries)

\* what is left of the file at the last read of a partition header
LeftAtLastRead == SubSeq(fw.data, epos + 1, Len(fw.data))

\* the extraction has read the header of a slot beyond the table and has
\* not finished the slot
BeyondSlotBegun ==
  cmd = "x" /\ pc = "x_payload" /\ i >= Len(modentries)

\* the number of payload bytes read for the slot whose header was read last
PayloadRead == fw.pos - (epos + SizeofPartHead)

\* C19: a whole partition header read after the table is reported and its
\* data copied into a further artifact under the name of its slot index.
\* When the payload bytes read number a multiple of 4 the slot is finished
\* and the loop goes on; when they do not, the fold of the copied bytes
\* does not return and the run never leaves the slot.  A run that went on
\* ends without a fatal error when the file ends right behind that data,
\* and with the fatal truncation error when anything shorter than a header
\* is left, the normal trailer block and footer included.
C19_DataBeyondTable ==
  /\ BeyondSlotExtracted =>
       LET ptyp == amba_a9_part_entry_type_id(i)
       IN  /\ <<run, "data_continues", i>> \in warn
           /\ ptyp \in DOMAIN Dir.a9h
           /\ Dir.a9h[ptyp].added_part = <<"">>
           /\ ptyp \in DOMAIN Dir.a9s
           /\ Dir.a9s[ptyp] = SubSeq(fw.data, epos + SizeofPartHead + 1, fw.pos)
           /\ PayloadRead % 4 = 0
  /\ BeyondSlotBegun =>
       /\ <<run, "data_continues", i>> \in warn
       /\ status \in {"run", "hang"}
       /\ status = "hang" =>
            /\ PayloadRead % 4 # 0
            /\ amba_a9_part_entry_type_id(i) \in DOMAIN Dir.a9s
  /\ (cmd = "x" /\ BeyondTable /\ status \in {"done", "fatal"}) =>
       /\ Len(LeftAtLastRead) < SizeofPartHead
       /\ status = "fatal" <=> LeftAtLastRead # <<>>

\* data beyond the table was extracted, and the run ended fatal on the
\* normal trailer block and footer
C19_Witness ==
  /\ cmd = "x" /\ run = 1 /\ BeyondTable /\ status = "fatal"
  /\ Len(LeftAtLastRead) = Len(post_file_data) + 4
  /\ SubSeq(LeftAtLastRead, 1, Len(post_file_data)) = post_file_data
  /\ amba_a9_part_entry_type_id(i - 1) \in DOMAIN Dir.a9s
  /\ Dir.a9s[amba_a9_part_entry_type_id(i - 1)] # <<>>

\* data beyond the table was extracted and the run ended at the end of the
\* file
C19_EndsAtEof ==
  cmd = "x" /\ run = 1 /\ BeyondTable /\ status = "done" /\ LeftAtLastRead = <<>>

\* C19 as stated: a run that met data beyond the table ends without a
\* fatal error when the normal trailer block and footer are what is left.
C19_TrailerEndsRun ==
  (/\ cmd = "x" /\ BeyondTable /\ status # "run"
   /\ Len(LeftAtLastRead) = Len(post_file_data) + 4
   /\ SubSeq(LeftAtLastRead, 1, Len(post_file_data)) = post_file_data)
  => status = "done"

(***************************************************************************)
(* C20  The container checksum against the entries' checksums.             *)
(***************************************************************************)
\* the indices of the table of the file whose declared length is not zero
UsedEntries == {k \in 1..Len(modentries) : ME_dt_len(FileEntry(k)) # Zero32}

LastUsed == CHOOSE k \in UsedEntries : \A j \in UsedEntries : j <= k
FirstUsedEntry == CHOOSE k \in UsedEntries : \A j \in UsedEntries : k <= j

\* C20: in a container written by construction the checksum of the
\* container header is the checksum field of the last entry of non-zero
\* declared length XOR 0xFFFFFFFF, the entries holding the un-complemented
\* running state that starts at 0xFFFFFFFF before the first partition; with
\* no entry of non-zero length the header checksum is 0; an entry of zero
\* length has checksum field 0.
C20_HeaderFromLastEntry ==
  ConstructionDone =>
    /\ IF UsedEntries = {}
       THEN StoredCrc(fw.data) = Zero32
       ELSE /\ StoredCrc(fw.data) = XorW(ME_crc32(FileEntry(LastUsed)), Ones32)
            /\ ME_crc32(FileEntry(FirstUsedEntry)) =
                 amba_calculate_crc32h_part(
                   part_heads[FirstUsedEntry]
                   \o (IF part_heads[FirstUsedEntry] = Zeros(SizeofPartHead) THEN <<>>
                       ELSE Dir.a9s[amba_a9_part_entry_type_id(FirstUsedEntry - 1)]),
                   Ones32)
    /\ \A k \in 1..Len(modentries) :
         ME_dt_len(FileEntry(k)) = Zero32 => ME_crc32(FileEntry(k)) = Zero32

\* a container was written whose table has a slot of zero length before
\* its last slot of non-zero length
C20_Witness ==
  /\ ConstructionDone
  /\ UsedEntries # {}
  /\ \E k \in 1..Len(modentries) : k < LastUsed /\ ME_dt_len(FileEntry(k)) = Zero32
  /\ StoredCrc(fw.data) # Zero32

\* a container was written whose table has no slot of non-zero length
C20_NoneUsed ==
  ConstructionDone /\ Len(modentries) > 0 /\ UsedEntries = {}

(***************************************************************************)
(* C21  The cumulative checksum folded in chunks.                          *)
(***************************************************************************)
\* C21: for every state s and buffers a, b with len(a) a multiple of 4,
\* the call on a ++ b from s and the call on b from the result of the call
\* on a from s both return, and return the same state.
C21_ChunkedFold ==
  cpc = "done" => (cwhole.ret /\ cpart.ret /\ cwhole.crc = cpart.crc)

\* the part of C21 that holds: when the rest is of whole 4-byte groups too,
\* both folds return the same state
ChunkedFoldOfGroups ==
  (cpc = "done" /\ Len(cb) % 4 = 0) =>
     (cwhole.ret /\ cpart.ret /\ cwhole.crc = cpart.crc)

\* two chunks of one group each were folded
ChunkedFoldReached ==
  cpc = "done" /\ Len(ca) = 4 /\ Len(cb) = 4 /\ cwhole.crc = cpart.crc

(***************************************************************************)
(* C22  The four-table step against the one-byte step.                     *)
(***************************************************************************)
\* the one-byte table step s := crc32_tab[0][(s XOR byte) AND 0xFF] XOR
\* (s >> 8) applied to the bytes of buf in order
RECURSIVE Bytewise(_, _)
Bytewise(buf, s) ==
  IF buf = <<>> THEN s
  ELSE Crc32hStep1(buf[Len(buf)], Bytewise(SubSeq(buf, 1, Len(buf) - 1), s))

\* a value of 32 bits: four bytes
Is32(w) == Len(w) = 4 /\ \A j \in 1..4 : w[j] \in 0..255

\* crc32_tab[k][n] = (crc32_tab[k-1][n] >> 8) XOR
\* crc32_tab[0][crc32_tab[k-1][n] AND 0xFF], for k in 1..3 and n in 0..255
TableRecurrence ==
  \A k \in 1..3 : \A n \in 0..255 :
    /\ Tab(k, n) = XorW(Shr8(Tab(k - 1, n)), Tab(0, Tab(k - 1, n)[1]))
    /\ Is32(Tab(k, n))

\* C22: on a buffer of whole 4-byte groups the rounds of the four-table
\* step return what the one-byte table step gives when applied byte by byte
\* in order, from any state, and the result is a 32-bit value; the tables
\* 1..3 are each derived from the one before by one zero-byte step.
C22_StepIsBytewise ==
  /\ (cpc # "whole" /\ cwhole.ret) =>
        cwhole.crc = Bytewise(ca \o cb, cs) /\ Is32(cwhole.crc)
  /\ cpc = "tail" => cpart.crc = Bytewise(ca, cs) /\ Is32(cpart.crc)
  /\ (cpc = "done" /\ cpart.ret) =>
        cpart.crc = Bytewise(cb, Bytewise(ca, cs)) /\ Is32(cpart.crc)
  /\ (cpc = "whole" /\ ca = <<>> /\ cb = <<>>) => TableRecurrence

\* two rounds of the four-table step were run from a state that is
\* neither all zeros nor all ones
C22_Witness ==
  /\ cpc = "done" /\ cwhole.ret
  /\ Len(ca) = 4 /\ Len(cb) = 4
  /\ cs = <<1, 2, 3, 4>>
  /\ cwhole.crc = Bytewise(ca \o cb, cs)

(***************************************************************************)
(* C23  Artifact lengths of a completed extraction.                        *)
(***************************************************************************)
Max(a, b) == IF a >= b THEN a ELSE b

\* where extraction reads the header of table slot k (counted from 0) and
\* where it stands after the slot: a slot of zero length is passed, the
\* payload takes header.length bytes, the sub-payload the rest of
\* entry.length, neither beyond the end of the file
RECURSIVE SlotStart(_), SlotEnd(_)
SlotStart(k) == IF k = 0 THEN BodyOffset(Len(modentries)) ELSE SlotEnd(k - 1)

SlotEnd(k) ==
  LET start == SlotStart(k)
      ent   == Val(ME_dt_len(modentries[k + 1]))
  IN  IF ent = 0 \/ start + SizeofPartHead > Len(fw.data) THEN start
      ELSE Min(Len(fw.data),
               start + SizeofPartHead
               + Max(Val(PH_dt_len(SubSeq(fw.data, start + 1, start + SizeofPartHead))),
                     ent - SizeofPartHead))

\* the length field of the header of table slot k
DeclaredLen(k) ==
  Val(PH_dt_len(SubSeq(fw.data, SlotStart(k) + 1, SlotStart(k) + SizeofPartHead)))

\* the table slots whose header extraction read whole
SlotsRead ==
  {k \in 0..(Len(modentries) - 1) :
     /\ ME_dt_len(modentries[k + 1]) # Zero32
     /\ SlotStart(k) + SizeofPartHead <= Len(fw.data)}

ExtractionDone == cmd = "x" /\ status = "done"

\* C23: when extraction has completed without a fatal error, the payload
\* artifact of every partition of the table holds exactly the number of
\* bytes its header declares, and every sub-payload artifact exactly
\* entry.length - 256 - header.length bytes.
C23_ArtifactLengths ==
  ExtractionDone =>
    \A k \in SlotsRead :
      LET ptyp == amba_a9_part_entry_type_id(k)
          name == AddedPartName(modhead, ptyp)
          sub  == Val(ME_dt_len(modentries[k + 1])) - SizeofPartHead - DeclaredLen(k)
      IN  /\ ptyp \in DOMAIN Dir.a9s
          /\ Len(Dir.a9s[ptyp]) = DeclaredLen(k)
          /\ sub > 0 => (name \in DOMAIN Dir.a9s /\ Len(Dir.a9s[name]) = sub)

====
